---- MODULE Spec2Model ----
(***************************************************************************)
(* Geo-AID compilation core.                                               *)
(*                                                                         *)
(*   - engine/rage/compiler.rs : Compiler::compile_programs lowers an      *)
(*     Intermediate into an EvaluateProgram and a FigureProgram.           *)
(*   - script/math.rs          : Expand::load interns the unrolled DAG.    *)
(*                                                                         *)
(* VarIndex, EntityId and Loc are 0-based as in the source; TLA+ sequences *)
(* are 1-based, so slot i of a Vec is element i+1 of the sequence.         *)
(* A panic (index out of bounds, unwrap of None, unreachable!) and a stack *)
(* overflow end the run: pc = "panic", nothing is returned.                *)
(***************************************************************************)
EXTENDS Integers, Sequences, FiniteSets, TLC

\* usize::MAX, the "not compiled yet" mark of the entity and variable caches.
USIZE_MAX == 2147483647

\* ------------------------------------------------------------------------
\* Bounds of the explored inputs.
\* ------------------------------------------------------------------------
\* Literal values are 1..MaxConst.
MaxConst == 2
\* Longest leaf-only variable table.
MaxLeaves == 3
\* Longest chain of operations stacked on the base variables.
MaxDepth == 3
\* Longest operand list of AveragePoint / Sum / Product.
MaxList == 2
\* Longest rule list.
MaxRules == 2
\* Deepest nesting of Invert / Alternative inside a rule.
MaxRuleDepth == 2
\* Longest figure variable list.
MaxFigure == 2
\* Deepest nest of PerpendicularThrough / ParallelThrough in the unrolled DAG.
MaxNest == 4
\* Number of calls (Expand::load, Rule::load) made on one Expand.
MaxLoads == 3
\* Longest list of script variables.
MaxScriptVars == 2
\* Longest list of script rules.
MaxScriptRules == 2
\* Longest adjustable template of a compiled script.
MaxTemplate == 3

VARIABLES
    intermediate,       \* Compiler.intermediate (the input, never written)
    constants,          \* Compiler.constants
    constants_indices,  \* Compiler.constants_indices
    cursor,             \* Compiler.cursor.current
    rule_cursor,        \* Compiler.rule_cursor.current
    instructions,       \* Compiler.instructions
    entities,           \* Compiler.entities
    variables,          \* Compiler.variables
    alt_mode,           \* Compiler.alt_mode
    biases,             \* Compiler.biases
    adj_count,          \* compile_programs: adj_count
    rule_count,         \* compile_programs: rule_count
    evaluate,           \* compile_programs: the EvaluateProgram once built
    figure,             \* compile_programs: the FigureProgram once built
    idx,                \* position of the running for loop
    pc,                 \* position inside compile_programs
    cursor_at_push,     \* history: the main cursor when each instruction was pushed
    unrolled,           \* the unrolled DAG handed to Expand (never written)
    record,             \* Expand.record
    expr_map,           \* Expand.expr_map
    points,             \* number of points handed out by add_point
    returned,           \* per unrolled node, the ids its load calls returned
    loads,              \* number of load calls made by the caller
    epc,                \* "ready", "abort" once a load ended the process,
                        \* "returned" after load_adjusted, "loaded" after load_script
    unrolled_rules,     \* the unrolled rules taken from the context (never written)
    loaded_rules,       \* load_adjusted's local `rules`
    adjusted_view,      \* the Adjusted that was returned
    script,             \* the unrolled script handed to script compile (never written)
    flags,              \* the Flags read by read_flags
    dst_var,            \* whether the @distance variable was created
    result,             \* what compile returned
    spc                 \* position inside script compile

compilerVars == <<intermediate, constants, constants_indices, cursor, rule_cursor,
                  instructions, entities, variables, alt_mode, biases,
                  adj_count, rule_count, evaluate, figure, idx, pc, cursor_at_push>>

expandVars == <<unrolled, record, expr_map, points, returned, loads, epc,
                unrolled_rules, loaded_rules, adjusted_view>>

scriptVars == <<script, flags, dst_var, result, spc>>

vars == <<compilerVars, expandVars, scriptVars>>

\* ------------------------------------------------------------------------
\* Small helpers.
\* ------------------------------------------------------------------------
Range(s) == {s[i] : i \in DOMAIN s}

\* Vec::resize(n, v) on an empty Vec.
Filled(n, v) == [i \in 1..n |-> v]

NoProgram == [built |-> FALSE]

\* ------------------------------------------------------------------------
\* Data of script::math (ExprKind, EntityKind, RuleKind constructors).
\* An ExprKind is [kind, a, b, n]: a and b are VarIndex lists in the order the
\* variant lists its fields (Sum: a = plus, b = minus; Product: a = times,
\* b = by), n is the EntityId of Entity, the value of Const, the exponent of
\* Power.
\* ------------------------------------------------------------------------
Ex(k, a, b, n) == [kind |-> k, a |-> a, b |-> b, n |-> n]
Op(k, a) == Ex(k, a, <<>>, 0)
ConstEx(v) == Ex("Const", <<>>, <<>>, v)
EntityEx(id) == Ex("Entity", <<>>, <<>>, id)

\* An EntityKind is [kind, v]: v is the VarIndex of the line / circle.
Ent(k, v) == [kind |-> k, v |-> v]

\* A RuleKind is [kind, ops, items]: ops the two VarIndex of a comparison,
\* items the children of Alternative, the single child of Invert.
RuleCmp(k, a, b) == [kind |-> k, ops |-> <<a, b>>, items |-> <<>>]
RuleAlt(items) == [kind |-> "Alternative", ops |-> <<>>, items |-> items]
RuleInv(r) == [kind |-> "Invert", ops |-> <<>>, items |-> <<r>>]
RuleBias == [kind |-> "Bias", ops |-> <<>>, items |-> <<>>]

\* ------------------------------------------------------------------------
\* The compiler's working state as one value, so that the lowering functions
\* can thread it. panic is set when the run aborts.
\* ------------------------------------------------------------------------
Self == [constants |-> constants, constants_indices |-> constants_indices,
         cursor |-> cursor, rule_cursor |-> rule_cursor,
         instructions |-> instructions, entities |-> entities,
         variables |-> variables, alt_mode |-> alt_mode, biases |-> biases,
         pushed_at |-> cursor_at_push, panic |-> FALSE]

Ret(c, loc) == [c |-> c, loc |-> loc]
Panicked(c) == Ret([c EXCEPT !.panic = TRUE], USIZE_MAX)

\* Complex::zero() and ProcNum::to_complex.
ComplexZero == [re |-> 0, im |-> 0]
to_complex(v) == [re |-> v, im |-> 0]

\* A cursor that hands out its value without advancing.
Cursor_next_stuck(c) == Ret(c, c.cursor)

\* A cursor that leaves a slot out at every call.
Cursor_next_skipping(c) == Ret([c EXCEPT !.cursor = @ + 2], c.cursor)

\* Cursor::next: advance, return the value before the advance.
Cursor_next(c) == Ret([c EXCEPT !.cursor = @ + 1], c.cursor)

\* self.instructions.push(..)
Push(c, ins) ==
    IF c.panic THEN c
    ELSE [c EXCEPT !.instructions = Append(@, ins), !.pushed_at = Append(@, c.cursor)]

Instr(op, params, target) == [op |-> op, params |-> params, target |-> target]

\* prepare_constants, the for loop: every Const node pushes a slot and
\* (re)binds its value to that slot.
RECURSIVE push_constants(_, _)
push_constants(c, exprs) ==
    IF exprs = <<>> THEN c
    ELSE LET expr == Head(exprs)
             c1 == IF expr.kind = "Const"
                   THEN [c EXCEPT
                           !.constants = Append(@, to_complex(expr.n)),
                           !.constants_indices =
                               [v \in DOMAIN @ \cup {expr.n} |->
                                   IF v = expr.n THEN Len(c.constants) ELSE @[v]]]
                   ELSE c
         IN push_constants(c1, Tail(exprs))

prepare_constants(c, adjustable_count, exprs) ==
    push_constants([c EXCEPT !.constants_indices = <<>>,
                             !.constants = Filled(adjustable_count, ComplexZero),
                             !.entities = Filled(adjustable_count, USIZE_MAX)],
                   exprs)

\* locate_const: get(..).copied().unwrap()
locate_const(c, constant) ==
    IF constant \in DOMAIN c.constants_indices
    THEN Ret(c, c.constants_indices[constant])
    ELSE Panicked(c)

\* next_rule that always takes from the rule cursor.
next_rule_flat(c) == Ret([c EXCEPT !.rule_cursor = @ + 1], c.rule_cursor)

\* next_rule that always takes from the main cursor.
next_rule_main(c) == Cursor_next(c)

\* next_rule: the main cursor in alt mode, the rule cursor otherwise.
next_rule(c) ==
    IF c.alt_mode
    THEN Cursor_next(c)
    ELSE Ret([c EXCEPT !.rule_cursor = @ + 1], c.rule_cursor)

\* The variants lowered as: target := cursor.next(); operands; one instruction.
InstructionOf(kind) ==
    CASE kind = "LineLineIntersection" -> "LineLineIntersection"
      [] kind = "AveragePoint" -> "Average"
      [] kind = "PointPoint" -> "LineFromPoints"
      [] kind = "AngleBisector" -> "AngleBisector"
      [] kind = "ParallelThrough" -> "ParallelThrough"
      [] kind = "PerpendicularThrough" -> "PerpendicularThrough"
      [] kind = "PointPointDistance" -> "PointPointDistance"
      [] kind = "PointLineDistance" -> "PointLineDistance"
      [] kind = "ThreePointAngle" -> "AnglePoint"
      [] kind = "ThreePointAngleDir" -> "AnglePointDir"
      [] kind = "TwoLineAngle" -> "AngleLine"
      [] kind = "PointY" -> "SwapParts"
      [] kind = "ConstructCircle" -> "CircleConstruct"

OneInstructionKinds ==
    {"LineLineIntersection", "AveragePoint", "PointPoint", "AngleBisector",
     "ParallelThrough", "PerpendicularThrough", "PointPointDistance",
     "PointLineDistance", "ThreePointAngle", "ThreePointAngleDir",
     "TwoLineAngle", "PointY", "ConstructCircle"}

RECURSIVE compile_VarIndex(_, _)
RECURSIVE compile_ExprKind(_, _)
RECURSIVE compile_EntityId(_, _)
RECURSIVE compile_operands(_, _)
RECURSIVE compile_CircleCenter(_, _)
RECURSIVE compile_PointX(_, _)
RECURSIVE compile_EntityKind(_, _, _)
RECURSIVE compile_Sum(_, _)

\* items.iter().map(|x| self.compile(x)).collect(), and the operand fields of
\* a struct literal: left to right.
compile_operands(c, vs) ==
    IF vs = <<>> THEN [c |-> c, locs |-> <<>>]
    ELSE LET r == compile_VarIndex(c, Head(vs))
             rest == compile_operands(r.c, Tail(vs))
         IN [c |-> rest.c, locs |-> <<r.loc>> \o rest.locs]

\* A VarIndex lowering that never consults the memo cache.
compile_VarIndex_uncached(c, value) ==
    IF c.panic THEN Ret(c, USIZE_MAX)
    ELSE IF value >= Len(c.variables) THEN Panicked(c)
    ELSE IF value >= Len(intermediate.adjusted.variables) THEN Panicked(c)
    ELSE LET r == compile_ExprKind(c, intermediate.adjusted.variables[value + 1])
         IN IF r.c.panic THEN r
            ELSE Ret([r.c EXCEPT !.variables[value + 1] = r.loc], r.loc)

\* Compile<VarIndex>: the memo cache, then the adjusted variable table.
compile_VarIndex(c, value) ==
    IF c.panic THEN Ret(c, USIZE_MAX)
    ELSE IF value >= Len(c.variables) THEN Panicked(c)
    ELSE IF c.variables[value + 1] # USIZE_MAX THEN Ret(c, c.variables[value + 1])
    ELSE IF value >= Len(intermediate.adjusted.variables) THEN Panicked(c)
    ELSE LET r == compile_ExprKind(c, intermediate.adjusted.variables[value + 1])
         IN IF r.c.panic THEN r
            ELSE Ret([r.c EXCEPT !.variables[value + 1] = r.loc], r.loc)

\* A lowering of CircleCenter that extracts the center into a slot of its own.
compile_CircleCenter_extract(c, value) ==
    LET t == Cursor_next(c)
        r == compile_VarIndex(t.c, value.a[1])
    IN Ret(Push(r.c, Instr("CircleCenter", <<r.loc>>, t.loc)), t.loc)

\* ExprKind::CircleCenter { circle }: "It should be enough to just move the
\* circle."
compile_CircleCenter(c, value) == compile_VarIndex(c, value.a[1])

\* A lowering of PointX that copies the point into a slot of its own.
compile_PointX_copy(c, value) ==
    LET t == Cursor_next(c)
        r == compile_VarIndex(t.c, value.a[1])
    IN Ret(Push(r.c, Instr("Move", <<r.loc>>, t.loc)), t.loc)

\* ExprKind::PointX { point }: "Simply moving is enough."
compile_PointX(c, value) == compile_VarIndex(c, value.a[1])

\* A Sum lowering with the roles of plus and minus exchanged.
compile_Sum_swapped(c, value) ==
    LET t == Cursor_next(c)
        r1 == compile_operands(t.c, value.a)
        c1 == Push(Push(r1.c, Instr("Sum", r1.locs, t.loc)),
                   Instr("Negation", <<t.loc>>, t.loc))
        r2 == compile_operands(c1, value.b)
    IN Ret(Push(r2.c, Instr("Sum", <<t.loc>> \o r2.locs, t.loc)), t.loc)

\* A Sum lowering that negates the target before anything was summed into it.
compile_Sum_negate_first(c, value) ==
    LET t == Cursor_next(c)
        c0 == Push(t.c, Instr("Negation", <<t.loc>>, t.loc))
        r1 == compile_operands(c0, value.b)
        c1 == Push(r1.c, Instr("Sum", r1.locs, t.loc))
        r2 == compile_operands(c1, value.a)
    IN Ret(Push(r2.c, Instr("Sum", <<t.loc>> \o r2.locs, t.loc)), t.loc)

\* ExprKind::Sum{plus, minus} (a = plus, b = minus): the minus operands are
\* summed into the target, the target is negated, then the target and the
\* plus operands are summed into the target.
compile_Sum(c, value) ==
    LET t == Cursor_next(c)
        r1 == compile_operands(t.c, value.b)
        c1 == Push(Push(r1.c, Instr("Sum", r1.locs, t.loc)),
                   Instr("Negation", <<t.loc>>, t.loc))
        r2 == compile_operands(c1, value.a)
    IN Ret(Push(r2.c, Instr("Sum", <<t.loc>> \o r2.locs, t.loc)), t.loc)

\* Compile<ExprKind>. The target is taken first, the operands are lowered
\* next, the instruction is pushed last.
compile_ExprKind(c, value) ==
    IF c.panic THEN Ret(c, USIZE_MAX)
    ELSE CASE value.kind \in OneInstructionKinds ->
                LET t == Cursor_next(c)
                    r == compile_operands(t.c, value.a)
                IN Ret(Push(r.c, Instr(InstructionOf(value.kind), r.locs, t.loc)), t.loc)
           [] value.kind = "CircleCenter" ->
                compile_CircleCenter(c, value)
           [] value.kind = "PointX" ->
                compile_PointX(c, value)
           [] value.kind = "Entity" ->
                compile_EntityId(c, value.n)
           [] value.kind = "Const" ->
                locate_const(c, value.n)
           [] value.kind = "Sum" ->
                compile_Sum(c, value)
           [] value.kind = "Product" ->
                LET t == Cursor_next(c)
                    r1 == compile_operands(t.c, value.b)
                    c1 == Push(Push(r1.c, Instr("PartialProduct", r1.locs, t.loc)),
                               [op |-> "Pow", params |-> <<t.loc>>, exponent |-> -1,
                                target |-> t.loc])
                    r2 == compile_operands(c1, value.a)
                IN Ret(Push(r2.c, Instr("PartialProduct", <<t.loc>> \o r2.locs, t.loc)),
                       t.loc)
           [] value.kind = "Power" ->
                LET t == Cursor_next(c)
                    r == compile_operands(t.c, value.a)
                IN Ret(Push(r.c, [op |-> "Pow", params |-> r.locs, exponent |-> value.n,
                                  target |-> t.loc]), t.loc)

\* A lowering of free entities that hands out a fresh slot instead of the
\* entity's own pool slot.
compile_EntityKind_fresh(c, value, ent) ==
    IF ent.kind \in {"FreeReal", "FreePoint"} THEN Cursor_next(c)
    ELSE LET t == Cursor_next(c)
             l == compile_VarIndex(t.c, ent.v)
         IN Ret(Push(l.c, [op |-> IF ent.kind = "PointOnLine" THEN "OnLine" ELSE "OnCircle",
                           params |-> <<l.loc>>, clip |-> value, target |-> t.loc]), t.loc)

\* Compile<EntityId>, the match on ent.kind.
compile_EntityKind(c, value, ent) ==
    CASE ent.kind \in {"FreeReal", "FreePoint"} -> Ret(c, value)
      [] ent.kind = "PointOnLine" ->
           LET t == Cursor_next(c)
               l == compile_VarIndex(t.c, ent.v)
           IN Ret(Push(l.c, [op |-> "OnLine", params |-> <<l.loc>>,
                             clip |-> value, target |-> t.loc]), t.loc)
      [] ent.kind = "PointOnCircle" ->
           LET t == Cursor_next(c)
               l == compile_VarIndex(t.c, ent.v)
           IN Ret(Push(l.c, [op |-> "OnCircle", params |-> <<l.loc>>,
                             clip |-> value, target |-> t.loc]), t.loc)
      [] OTHER -> Panicked(c)

\* Compile<EntityId>: the entity cache, then the adjusted entity table.
compile_EntityId(c, value) ==
    IF c.panic THEN Ret(c, USIZE_MAX)
    ELSE IF value >= Len(c.entities) THEN Panicked(c)
    ELSE IF c.entities[value + 1] # USIZE_MAX THEN Ret(c, c.entities[value + 1])
    ELSE IF value >= Len(intermediate.adjusted.entities) THEN Panicked(c)
    ELSE LET r == compile_EntityKind(c, value, intermediate.adjusted.entities[value + 1])
         IN IF r.c.panic THEN r
            ELSE Ret([r.c EXCEPT !.entities[value + 1] = r.loc], r.loc)

ComparisonInstruction(kind) ==
    CASE kind = "PointEq" -> "EqualComplex"
      [] kind = "NumberEq" -> "EqualReal"
      [] kind = "Lt" -> "Less"
      [] kind = "Gt" -> "Greater"

RECURSIVE compile_RuleKind(_, _)
RECURSIVE compile_items(_, _)

\* items.iter().map(|x| self.compile(x)).collect() over rule children.
compile_items(c, items) ==
    IF items = <<>> THEN [c |-> c, locs |-> <<>>]
    ELSE LET r == compile_RuleKind(c, Head(items))
             rest == compile_items(r.c, Tail(items))
         IN [c |-> rest.c, locs |-> <<r.loc>> \o rest.locs]

\* Compile<RuleKind> (Compile<Rule> forwards to it).
compile_RuleKind(c, value) ==
    IF c.panic THEN Ret(c, USIZE_MAX)
    ELSE CASE value.kind \in {"PointEq", "NumberEq", "Lt", "Gt"} ->
                LET t == next_rule(c)
                    r == compile_operands(t.c, value.ops)
                IN Ret(Push(r.c, Instr(ComparisonInstruction(value.kind), r.locs, t.loc)),
                       t.loc)
           [] value.kind = "Alternative" ->
                LET t == next_rule(c)
                    alt == c.alt_mode
                    c1 == IF ~alt THEN [t.c EXCEPT !.alt_mode = TRUE] ELSE t.c
                    r == compile_items(c1, value.items)
                    c2 == Push(r.c, Instr("MaxReal", r.locs, t.loc))
                    c3 == IF ~alt THEN [c2 EXCEPT !.alt_mode = FALSE] ELSE c2
                IN Ret(c3, t.loc)
           [] value.kind = "Invert" ->
                LET r == compile_RuleKind(c, value.items[1])
                IN Ret(Push(r.c, Instr("InvertQuality", <<r.loc>>, r.loc)), r.loc)
           [] value.kind = "Bias" ->
                LET t == next_rule(c)
                IN Ret([t.c EXCEPT !.biases = Append(@, t.loc)], t.loc)

\* ------------------------------------------------------------------------
\* The explored Intermediates. Every table lists children before parents
\* (Expand pushes a node after its children), entity ids are given in the
\* order the entities are first reached, figure and adjusted share the entity
\* table, and a rule's entity set is the set of entities its expressions
\* reach.
\* ------------------------------------------------------------------------
RECURSIVE VarEntities(_, _, _)
VarEntities(vs, es, v) ==
    LET e == vs[v + 1]
    IN IF e.kind = "Entity"
       THEN {e.n} \cup (IF es[e.n + 1].kind \in {"PointOnLine", "PointOnCircle"}
                        THEN VarEntities(vs, es, es[e.n + 1].v)
                        ELSE {})
       ELSE UNION {VarEntities(vs, es, w) : w \in Range(e.a) \cup Range(e.b)}

RECURSIVE RuleEntities(_, _, _)
RuleEntities(vs, es, rk) ==
    UNION ({VarEntities(vs, es, v) : v \in Range(rk.ops)}
           \cup {RuleEntities(vs, es, r) : r \in Range(rk.items)})

MkIntermediate(vs, es, rks, figvars) ==
    [adjusted |-> [variables |-> vs,
                   entities |-> es,
                   rules |-> [i \in DOMAIN rks |->
                                [kind |-> rks[i],
                                 entities |-> RuleEntities(vs, es, rks[i])]]],
     figure |-> [variables |-> figvars, entities |-> es]]

\* A table under construction: the variables, the entities, the type of every
\* variable ("P" point, "L" line, "C" circle, "S" scalar) and the helper
\* operands hp1, hp2 (points) and hs (scalar).
Extend(g, e, t) == [g EXCEPT !.vars = Append(@, e), !.ty = Append(@, t)]

NewEntity(g, ek, t) ==
    [Extend(g, EntityEx(Len(g.ents)), t) EXCEPT !.ents = Append(@, ek)]

EmptyTable == [vars |-> <<>>, ents |-> <<>>, ty |-> <<>>, hp1 |-> 0, hp2 |-> 0, hs |-> 0]

\* Leaf-only tables: literals (repeated values included) and free entities.
LeafSteps(g) ==
    {Extend(g, ConstEx(v), "S") : v \in 1..MaxConst}
    \cup {NewEntity(g, Ent("FreePoint", 0), "P"), NewEntity(g, Ent("FreeReal", 0), "S")}

RECURSIVE LeafTables(_)
LeafTables(n) ==
    IF n = 0 THEN {EmptyTable}
    ELSE UNION {LeafSteps(g) : g \in LeafTables(n - 1)}

\* One comparison per adjacent pair of variables of the same type.
RECURSIVE AdjacentRules(_, _)
AdjacentRules(g, i) ==
    IF i + 1 >= Len(g.vars) \/ i >= MaxRules THEN <<>>
    ELSE (IF g.ty[i + 1] = g.ty[i + 2]
          THEN <<RuleCmp(IF g.ty[i + 1] = "P" THEN "PointEq" ELSE "NumberEq", i, i + 1)>>
          ELSE <<>>)
         \o AdjacentRules(g, i + 1)

LeafInputs ==
    {MkIntermediate(g.vars, g.ents, AdjacentRules(g, 0), g.vars) :
        g \in UNION {LeafTables(n) : n \in 0..MaxLeaves}}

\* The two bases the operation chains are stacked on.
BaseS == [vars |-> <<EntityEx(0), EntityEx(1), ConstEx(1)>>,
          ents |-> <<Ent("FreePoint", 0), Ent("FreePoint", 0)>>,
          ty |-> <<"P", "P", "S">>, hp1 |-> 0, hp2 |-> 1, hs |-> 2]
BaseP == [vars |-> <<ConstEx(1), EntityEx(0), EntityEx(1)>>,
          ents |-> <<Ent("FreePoint", 0), Ent("FreePoint", 0)>>,
          ty |-> <<"S", "P", "P">>, hp1 |-> 1, hp2 |-> 2, hs |-> 0]

Cur(g) == Len(g.vars) - 1
CurType(g) == g.ty[Len(g.vars)]

\* The latest line before the current variable, the current one if none.
OtherLine(g) ==
    LET ls == {i \in 0..(Cur(g) - 1) : g.ty[i + 1] = "L"}
    IN IF ls = {} THEN Cur(g) ELSE CHOOSE i \in ls : \A j \in ls : j <= i

\* Every well-typed operation on the current variable.
ChainSteps(g) ==
    LET c == Cur(g)
    IN CASE CurType(g) = "P" ->
              {Extend(g, Op("PointX", <<c>>), "S"),
               Extend(g, Op("PointY", <<c>>), "S"),
               Extend(g, Op("PointPointDistance", <<g.hp1, c>>), "S"),
               Extend(g, Op("ThreePointAngle", <<c, g.hp1, g.hp2>>), "S"),
               Extend(g, Op("ThreePointAngleDir", <<g.hp1, g.hp2, c>>), "S"),
               Extend(g, Op("PointPoint", <<c, g.hp1>>), "L"),
               Extend(g, Op("AngleBisector", <<g.hp1, c, g.hp2>>), "L"),
               Extend(g, Op("AveragePoint", <<c, g.hp2>>), "P"),
               Extend(g, Op("ConstructCircle", <<c, g.hs>>), "C")}
         [] CurType(g) = "S" ->
              {Extend(g, Ex("Power", <<c>>, <<>>, 2), "S"),
               Extend(g, Ex("Sum", <<c>>, <<g.hs>>, 0), "S"),
               Extend(g, Ex("Sum", <<g.hs>>, <<c, c>>, 0), "S"),
               Extend(g, Ex("Product", <<g.hs, c>>, <<c>>, 0), "S"),
               Extend(g, Op("ConstructCircle", <<g.hp1, c>>), "C")}
         [] CurType(g) = "L" ->
              {Extend(g, Op("ParallelThrough", <<g.hp2, c>>), "L"),
               Extend(g, Op("PerpendicularThrough", <<g.hp1, c>>), "L"),
               Extend(g, Op("PointLineDistance", <<g.hp2, c>>), "S"),
               Extend(g, Op("TwoLineAngle", <<OtherLine(g), c>>), "S"),
               Extend(g, Op("LineLineIntersection", <<c, OtherLine(g)>>), "P"),
               NewEntity(g, Ent("PointOnLine", c), "P")}
         [] CurType(g) = "C" ->
              {Extend(g, Op("CircleCenter", <<c>>), "P"),
               NewEntity(g, Ent("PointOnCircle", c), "P")}

RECURSIVE Chains(_)
Chains(d) ==
    IF d = 0 THEN {BaseS, BaseP}
    ELSE UNION {ChainSteps(g) : g \in Chains(d - 1)}

\* The rules on the last variable of a chain: a comparison with a helper,
\* then an inverted inequality, alternating.
ChainRule(g, i) ==
    LET c == Cur(g)
    IN IF CurType(g) = "P"
       THEN (IF i % 2 = 1 THEN RuleCmp("PointEq", c, g.hp1)
             ELSE RuleInv(RuleCmp("PointEq", g.hp2, c)))
       ELSE (IF i % 2 = 1 THEN RuleCmp("NumberEq", c, g.hs)
             ELSE RuleInv(RuleCmp("Lt", g.hs, c)))

\* The figure shows nothing, or the same expressions as the adjusted view.
ChainInputs ==
    UNION {{MkIntermediate(g.vars, g.ents, [i \in 1..n |-> ChainRule(g, i)], fv) :
                n \in 1..MaxRules, fv \in {<<>>, g.vars}} :
           g \in {h \in UNION {Chains(d) : d \in 0..MaxDepth} : CurType(h) \in {"P", "S"}}}

\* Operand lists of every length up to MaxList over two variables.
RECURSIVE Lists(_, _)
Lists(S, n) ==
    IF n = 0 THEN {<<>>}
    ELSE Lists(S, n - 1) \cup {Append(l, x) : l \in Lists(S, n - 1), x \in S}

\* AveragePoint, Sum and Product over leaves, with every operand list.
ListBase == [vars |-> <<EntityEx(0), EntityEx(1), EntityEx(2), ConstEx(1)>>,
             ents |-> <<Ent("FreePoint", 0), Ent("FreePoint", 0), Ent("FreeReal", 0)>>]

ListInputs ==
    {MkIntermediate(Append(ListBase.vars, Ex(k, p, m, 0)), ListBase.ents,
                    <<RuleCmp("NumberEq", 4, 3)>>, <<Ex(k, <<>>, <<>>, 0)>>) :
        k \in {"Sum", "Product"}, p \in Lists({2, 3}, MaxList), m \in Lists({2, 3}, MaxList)}
    \cup
    {MkIntermediate(Append(ListBase.vars, Op("AveragePoint", p)), ListBase.ents,
                    <<RuleCmp("PointEq", 0, 4)>>, <<Op("AveragePoint", <<>>)>>) :
        p \in Lists({0, 1}, MaxList)}

\* Rule trees over a fixed table: comparisons, Bias, Invert and Alternative
\* nested up to MaxRuleDepth.
RuleBase == [vars |-> <<EntityEx(0), EntityEx(1), ConstEx(1), Op("PointX", <<0>>),
                        EntityEx(2)>>,
             ents |-> <<Ent("FreePoint", 0), Ent("FreePoint", 0), Ent("FreeReal", 0)>>]

RuleLeaves ==
    {RuleCmp("PointEq", 0, 1), RuleCmp("NumberEq", 2, 4), RuleCmp("Lt", 3, 2),
     RuleCmp("Gt", 2, 3), RuleBias}

RECURSIVE RuleKinds(_)
RuleKinds(d) ==
    IF d = 0 THEN RuleLeaves
    ELSE LET rs == RuleKinds(d - 1)
         IN rs \cup {RuleInv(r) : r \in rs}
               \cup {RuleAlt(<<r, RuleCmp("Lt", 3, 2)>>) : r \in rs}
               \cup {RuleAlt(<<RuleCmp("Gt", 2, 3), r>>) : r \in rs}
               \cup {RuleAlt(<<>>)}

\* A rule list: one rule tree at position k among plain comparisons.
RuleInputs ==
    {MkIntermediate(RuleBase.vars, RuleBase.ents,
                    [i \in 1..n |-> IF i = k THEN r
                                    ELSE IF i % 2 = 1 THEN RuleCmp("PointEq", 0, 1)
                                    ELSE RuleBias],
                    <<>>) :
        r \in RuleKinds(MaxRuleDepth),
        n \in 0..MaxRules,
        k \in 1..MaxRules}

\* Figure variable lists over a fixed table with a point on a line.
FigureBase == [vars |-> <<EntityEx(0), EntityEx(1), ConstEx(1),
                          Op("PointPoint", <<0, 1>>), EntityEx(2)>>,
               ents |-> <<Ent("FreePoint", 0), Ent("FreeReal", 0), Ent("PointOnLine", 3)>>]

FigureVariables ==
    {ConstEx(1), ConstEx(2), EntityEx(0), EntityEx(1), EntityEx(2),
     Op("AveragePoint", <<>>), Ex("Sum", <<>>, <<>>, 0), Op("PointX", <<0>>),
     Op("PointPoint", <<0, 1>>)}

FigureInputs ==
    {MkIntermediate(FigureBase.vars, FigureBase.ents,
                    <<RuleCmp("PointEq", 0, 4)>>, fv) :
        fv \in Lists(FigureVariables, MaxFigure)}

Intermediates == LeafInputs \cup ChainInputs \cup ListInputs \cup RuleInputs \cup FigureInputs

\* ------------------------------------------------------------------------
\* compile_programs, step by step.
\* ------------------------------------------------------------------------
Adopt(c) ==
    /\ constants' = c.constants
    /\ constants_indices' = c.constants_indices
    /\ cursor' = c.cursor
    /\ rule_cursor' = c.rule_cursor
    /\ instructions' = c.instructions
    /\ entities' = c.entities
    /\ variables' = c.variables
    /\ alt_mode' = c.alt_mode
    /\ biases' = c.biases
    /\ cursor_at_push' = c.pushed_at

Abort ==
    /\ pc' = "panic"
    /\ UNCHANGED <<constants, constants_indices, cursor, rule_cursor, instructions,
                   entities, variables, alt_mode, biases, cursor_at_push>>

\* AdjustableTemplate::from(&ent.kind)
AdjustableTemplateFrom(ek) ==
    CASE ek.kind = "FreePoint" -> "Point"
      [] ek.kind = "FreeReal" -> "Real"
      [] ek.kind = "PointOnLine" -> "OnLine"
      [] ek.kind = "PointOnCircle" -> "OnCircle"

\* No script compile at work.
ScriptIdle ==
    /\ script = <<>>
    /\ flags = <<>>
    /\ dst_var = FALSE
    /\ result = <<>>
    /\ spc = "idle"

\* No Expand at work.
ExpandIdle ==
    /\ unrolled = <<>>
    /\ record = <<>>
    /\ expr_map = <<>>
    /\ points = 0
    /\ returned = <<>>
    /\ loads = 0
    /\ epc = "idle"
    /\ unrolled_rules = <<>>
    /\ loaded_rules = <<>>
    /\ adjusted_view = <<>>

\* Compiler::new
Init ==
    /\ intermediate \in Intermediates
    /\ constants = <<>>
    /\ constants_indices = <<>>
    /\ cursor = 0
    /\ rule_cursor = 0
    /\ instructions = <<>>
    /\ entities = <<>>
    /\ variables = <<>>
    /\ alt_mode = FALSE
    /\ biases = <<>>
    /\ adj_count = 0
    /\ rule_count = 0
    /\ evaluate = NoProgram
    /\ figure = NoProgram
    /\ idx = 0
    /\ pc = "start"
    /\ cursor_at_push = <<>>
    /\ ExpandIdle
    /\ ScriptIdle

\* Lines 96-116: adjustables, the constant pool, the two cursors, the memo.
StartEvaluate ==
    /\ pc = "start"
    /\ LET n == Len(intermediate.figure.entities)
           c1 == prepare_constants(Self, n, intermediate.adjusted.variables)
           rc == Len(intermediate.adjusted.rules)
           program_zero == Len(c1.constants) + rc
       IN /\ adj_count' = n
          /\ rule_count' = rc
          /\ Adopt([c1 EXCEPT !.cursor = program_zero,
                              !.rule_cursor = Len(c1.constants),
                              !.variables = Filled(Len(intermediate.adjusted.variables),
                                                   USIZE_MAX)])
    /\ idx' = 0
    /\ pc' = "rules"
    /\ UNCHANGED <<intermediate, evaluate, figure>>
    /\ UNCHANGED <<expandVars, scriptVars>>

\* Lines 118-120: one turn of the loop over adjusted.rules.
CompileRule ==
    /\ pc = "rules"
    /\ idx < Len(intermediate.adjusted.rules)
    /\ LET r == compile_RuleKind(Self, intermediate.adjusted.rules[idx + 1].kind)
       IN IF r.c.panic
          THEN Abort /\ idx' = idx
          ELSE Adopt(r.c) /\ idx' = idx + 1 /\ pc' = "rules"
    /\ UNCHANGED <<intermediate, adj_count, rule_count, evaluate, figure>>
    /\ UNCHANGED <<expandVars, scriptVars>>

\* Lines 125-132: the weight cells, 1/len written as <<1, len>>, 0.0 as <<0, 1>>.
\* ok is FALSE once a write falls outside the Vec.
RECURSIVE weights_of_rule(_, _, _, _, _)
weights_of_rule(w, i, n, es, len) ==
    IF es = {} \/ ~w.ok THEN w
    ELSE LET adj == CHOOSE e \in es : TRUE
             k == i * n + adj
         IN IF k >= Len(w.cells) THEN [w EXCEPT !.ok = FALSE]
            ELSE weights_of_rule([w EXCEPT !.cells[k + 1] = <<1, len>>],
                                 i, n, es \ {adj}, len)

\* A weight loop that divides by the number of adjustables, not by the
\* size of the rule's entity set.
RECURSIVE count_weights_by_adjustables(_, _, _, _)
count_weights_by_adjustables(w, i, n, rules) ==
    IF i >= Len(rules) THEN w
    ELSE count_weights_by_adjustables(
             weights_of_rule(w, i, n, rules[i + 1].entities, n), i + 1, n, rules)

RECURSIVE count_weights(_, _, _, _)
count_weights(w, i, n, rules) ==
    IF i >= Len(rules) THEN w
    ELSE LET es == rules[i + 1].entities
         IN count_weights(weights_of_rule(w, i, n, es, Cardinality(es)), i + 1, n, rules)

\* Lines 122-144: memory size, weights, the EvaluateProgram.
FinishEvaluate ==
    /\ pc = "rules"
    /\ idx = Len(intermediate.adjusted.rules)
    /\ LET memory_size == cursor
           w == count_weights([ok |-> TRUE,
                               cells |-> Filled(rule_count * adj_count, <<0, 1>>)],
                              0, adj_count, intermediate.adjusted.rules)
       IN IF ~w.ok
          THEN Abort /\ evaluate' = evaluate
          ELSE /\ evaluate' = [built |-> TRUE,
                               req_memory_size |-> memory_size,
                               constants |-> constants,
                               instructions |-> instructions,
                               adjustables |-> [i \in DOMAIN intermediate.figure.entities |->
                                   AdjustableTemplateFrom(intermediate.figure.entities[i])],
                               rule_count |-> rule_count,
                               biases |-> biases,
                               weights |-> w.cells]
               /\ cursor' = cursor + 1
               /\ constants' = <<>>
               /\ instructions' = <<>>
               /\ cursor_at_push' = <<>>
               /\ biases' = <<>>
               /\ pc' = "evaluated"
               /\ UNCHANGED <<constants_indices, rule_cursor, entities, variables, alt_mode>>
    /\ UNCHANGED <<intermediate, adj_count, rule_count, figure, idx>>
    /\ UNCHANGED <<expandVars, scriptVars>>

\* Compiler::get_value_type
get_value_type(e) ==
    IF e.kind \in {"Sum", "Product", "Const", "Power", "PointPointDistance",
                   "PointLineDistance", "ThreePointAngle", "ThreePointAngleDir",
                   "TwoLineAngle", "PointX", "PointY"}
    THEN "Real" ELSE "Complex"

\* Lines 150-160: every entity kind but Bind is Complex.
entity_type(ek) ==
    IF ek.kind \in {"FreeReal", "FreePoint", "PointOnCircle", "PointOnLine"}
    THEN "Complex" ELSE "unreachable"

\* Iterator::zip: as long as the shorter side.
Zip(xs, ys) ==
    [i \in 1..(IF Len(xs) < Len(ys) THEN Len(xs) ELSE Len(ys)) |-> <<xs[i], ys[i]>>]

\* A figure setup in which the evaluate program is handed the pool prepared
\* for the figure instead of owning its own.
StartFigure_shared_pool ==
    /\ pc = "evaluated"
    /\ IF \E i \in DOMAIN intermediate.figure.entities :
              entity_type(intermediate.figure.entities[i]) = "unreachable"
       THEN Abort /\ idx' = idx /\ evaluate' = evaluate
       ELSE LET c0 == [Self EXCEPT !.variables = <<>>, !.entities = <<>>]
                c1 == prepare_constants(c0, adj_count, intermediate.figure.variables)
                program_zero == adj_count
            IN /\ Adopt([c1 EXCEPT !.cursor = program_zero])
               /\ evaluate' = [evaluate EXCEPT !.constants = c1.constants]
               /\ idx' = 0
               /\ pc' = "figure"
    /\ UNCHANGED <<intermediate, adj_count, rule_count, figure>>
    /\ UNCHANGED <<expandVars, scriptVars>>

\* Lines 146-172: the types, the caches cleared, the figure constant pool,
\* the cursor placed for the figure program.
StartFigure ==
    /\ pc = "evaluated"
    /\ IF \E i \in DOMAIN intermediate.figure.entities :
              entity_type(intermediate.figure.entities[i]) = "unreachable"
       THEN Abort /\ idx' = idx
       ELSE LET c0 == [Self EXCEPT !.variables = <<>>, !.entities = <<>>]
                c1 == prepare_constants(c0, adj_count, intermediate.figure.variables)
                program_zero == adj_count
            IN /\ Adopt([c1 EXCEPT !.cursor = program_zero])
               /\ idx' = 0
               /\ pc' = "figure"
    /\ UNCHANGED <<intermediate, adj_count, rule_count, evaluate, figure>>
    /\ UNCHANGED <<expandVars, scriptVars>>

\* Lines 174-176: one turn of the loop over figure.variables
\* (Compile<Expr<M>> forwards to Compile<ExprKind>; the Loc is dropped).
CompileFigureVariable ==
    /\ pc = "figure"
    /\ idx < Len(intermediate.figure.variables)
    /\ LET r == compile_ExprKind(Self, intermediate.figure.variables[idx + 1])
       IN IF r.c.panic
          THEN Abort /\ idx' = idx
          ELSE Adopt(r.c) /\ idx' = idx + 1 /\ pc' = "figure"
    /\ UNCHANGED <<intermediate, adj_count, rule_count, evaluate, figure>>
    /\ UNCHANGED <<expandVars, scriptVars>>

\* Lines 178-188: the FigureProgram; (evaluate, figure) is returned.
FinishFigure ==
    /\ pc = "figure"
    /\ idx = Len(intermediate.figure.variables)
    /\ figure' = [built |-> TRUE,
                  req_memory_size |-> cursor,
                  constants |-> constants,
                  instructions |-> instructions,
                  variables |-> Zip([i \in DOMAIN intermediate.figure.variables |->
                                        get_value_type(intermediate.figure.variables[i])],
                                    variables),
                  entities |-> Zip([i \in DOMAIN intermediate.figure.entities |->
                                       entity_type(intermediate.figure.entities[i])],
                                   entities)]
    /\ cursor' = cursor + 1
    /\ pc' = "done"
    /\ UNCHANGED <<intermediate, constants, constants_indices, rule_cursor, instructions,
                   entities, variables, alt_mode, biases, adj_count, rule_count,
                   evaluate, idx, cursor_at_push>>
    /\ UNCHANGED <<expandVars, scriptVars>>

Next ==
    \/ StartEvaluate
    \/ CompileRule
    \/ FinishEvaluate
    \/ StartFigure
    \/ CompileFigureVariable
    \/ FinishFigure

Spec == Init /\ [][Next]_vars

\* ------------------------------------------------------------------------
\* Vocabulary of the properties.
\* ------------------------------------------------------------------------
RECURSIVE SumFn(_, _)
SumFn(f, S) ==
    IF S = {} THEN 0
    ELSE LET x == CHOOSE y \in S : TRUE IN f[x] + SumFn(f, S \ {x})

AdjustedVar(v) == intermediate.adjusted.variables[v + 1]
AdjustedEntity(e) == intermediate.adjusted.entities[e + 1]

\* The variables and entities the running phase has lowered so far.
CompiledVars == {v \in 0..(Len(variables) - 1) : variables[v + 1] # USIZE_MAX}
CompiledEntities == {e \in 0..(Len(entities) - 1) : entities[e + 1] # USIZE_MAX}
CompiledOnEntities ==
    {e \in CompiledEntities : AdjustedEntity(e).kind \in {"PointOnLine", "PointOnCircle"}}

\* What each node owes: instructions pushed and main-cursor slots taken.
ExprInstructionCount(e) ==
    CASE e.kind \in OneInstructionKinds \cup {"Power"} -> 1
      [] e.kind \in {"Sum", "Product"} -> 3
      [] OTHER -> 0

ExprSlotCount(e) ==
    IF e.kind \in OneInstructionKinds \cup {"Power", "Sum", "Product"} THEN 1 ELSE 0

RECURSIVE RuleInstructionCount(_)
RuleInstructionCount(rk) ==
    (IF rk.kind = "Bias" THEN 0 ELSE 1)
    + SumFn([i \in DOMAIN rk.items |-> RuleInstructionCount(rk.items[i])], DOMAIN rk.items)

\* Rule targets taken from the main cursor: the nodes below an Alternative.
RECURSIVE RuleMainSlots(_, _)
RuleMainSlots(rk, inAlt) ==
    (IF inAlt /\ rk.kind # "Invert" THEN 1 ELSE 0)
    + SumFn([i \in DOMAIN rk.items |->
                RuleMainSlots(rk.items[i], inAlt \/ rk.kind = "Alternative")],
            DOMAIN rk.items)

ExpectedInstructions ==
    SumFn([v \in CompiledVars |-> ExprInstructionCount(AdjustedVar(v))], CompiledVars)
    + Cardinality(CompiledOnEntities)
    + SumFn([i \in 1..idx |-> RuleInstructionCount(intermediate.adjusted.rules[i].kind)],
            1..idx)

ExpectedCursor ==
    Len(constants) + rule_count
    + SumFn([v \in CompiledVars |-> ExprSlotCount(AdjustedVar(v))], CompiledVars)
    + Cardinality(CompiledOnEntities)
    + SumFn([i \in 1..idx |-> RuleMainSlots(intermediate.adjusted.rules[i].kind, FALSE)],
            1..idx)

\* The instruction list the entity cache refers to.
CurrentInstructions == IF pc = "evaluated" THEN evaluate.instructions ELSE instructions

\* Every Loc an instruction reads: its operands and, for OnLine / OnCircle,
\* the adjustable it clips.
Reads(ins) == Range(ins.params) \cup (IF "clip" \in DOMAIN ins THEN {ins.clip} ELSE {})

Targets(is) == {is[i].target : i \in DOMAIN is}

\* ------------------------------------------------------------------------
\* C2. In the evaluate program and in the figure program, once built, every
\* Loc read by every instruction is below that program's req_memory_size.
\* ------------------------------------------------------------------------
OperandsInMemory(P) ==
    \A i \in DOMAIN P.instructions :
        \A l \in Reads(P.instructions[i]) : l < P.req_memory_size

C2_OperandsBelowMemorySize ==
    /\ evaluate.built => OperandsInMemory(evaluate)
    /\ figure.built => OperandsInMemory(figure)

\* Both programs returned; the evaluate program reads a scratch slot written
\* by another instruction, the figure program reads a slot too.
C2_Witness ==
    /\ pc = "done"
    /\ \E i \in DOMAIN evaluate.instructions :
          /\ Len(evaluate.instructions[i].params) >= 2
          /\ \E l \in Reads(evaluate.instructions[i]) :
                /\ l \in Targets(evaluate.instructions)
                /\ l # evaluate.instructions[i].target
    /\ \E i \in DOMAIN figure.instructions : Reads(figure.instructions[i]) # {}

\* ------------------------------------------------------------------------
\* C3. req_memory_size >= adj_count + constants + rule_count for the evaluate
\* program and >= adj_count + constants for the figure program. "constants"
\* is read as the literal slots of the pool (the pool without its adj_count
\* placeholders), the reading under which the evaluate half holds.
\* ------------------------------------------------------------------------
LiteralCount(P) == Len(P.constants) - adj_count

C3_MemorySizeCoversLayout ==
    /\ evaluate.built =>
          evaluate.req_memory_size >= adj_count + LiteralCount(evaluate) + evaluate.rule_count
    /\ figure.built =>
          figure.req_memory_size >= adj_count + LiteralCount(figure)

\* ------------------------------------------------------------------------
\* C5. As claimed: a CircleCenter over a ConstructCircle{center, radius}
\* compiles to the Loc of center.
\* ------------------------------------------------------------------------
CircleCenters ==
    {v \in CompiledVars :
        /\ AdjustedVar(v).kind = "CircleCenter"
        /\ AdjustedVar(AdjustedVar(v).a[1]).kind = "ConstructCircle"}

C5_CenterLoc ==
    pc = "rules" =>
        \A v \in CircleCenters :
            variables[v + 1] = variables[AdjustedVar(AdjustedVar(v).a[1]).a[1] + 1]

\* C5, amended. A CircleCenter over a ConstructCircle compiles to the Loc of
\* the circle, the target of its CircleConstruct; the CircleCenter itself adds
\* no instruction and takes no slot: CircleConstruct is the only instruction
\* writing that Loc, and the instruction count and the cursor are those owed
\* by the other nodes.
C5_CircleLoc ==
    pc = "rules" =>
        /\ \A v \in CircleCenters :
              /\ variables[v + 1] = variables[AdjustedVar(v).a[1] + 1]
              /\ \A i \in DOMAIN instructions :
                    instructions[i].target = variables[v + 1]
                        => instructions[i].op = "CircleConstruct"
        /\ CircleCenters # {} =>
              /\ Len(instructions) = ExpectedInstructions
              /\ cursor = ExpectedCursor

C5_Witness ==
    /\ pc = "rules"
    /\ \E v \in CircleCenters :
          \E i \in DOMAIN instructions : variables[v + 1] \in Reads(instructions[i])

\* ------------------------------------------------------------------------
\* C6. A PointX{point} compiles to the Loc of point, pushes no instruction
\* and takes no cursor slot of its own.
\* ------------------------------------------------------------------------
PointXs == {v \in CompiledVars : AdjustedVar(v).kind = "PointX"}

C6_PointXAlias ==
    pc = "rules" =>
        /\ \A v \in PointXs : variables[v + 1] = variables[AdjustedVar(v).a[1] + 1]
        /\ PointXs # {} =>
              /\ Len(instructions) = ExpectedInstructions
              /\ cursor = ExpectedCursor

\* A PointX of a computed point (a scratch slot) has been lowered and is read.
C6_Witness ==
    /\ pc = "rules"
    /\ \E v \in PointXs :
          /\ variables[v + 1] \in Targets(instructions)
          /\ \E i \in DOMAIN instructions : variables[v + 1] \in Reads(instructions[i])

\* ------------------------------------------------------------------------
\* C8. In the weights of the evaluate program, row i holds 1/|E| in the cell
\* of every adjustable of the rule's entity set E and 0 elsewhere; the row
\* sums to 1 when E is not empty and to 0 when it is.
\* ------------------------------------------------------------------------
WeightCell(i, adj) == evaluate.weights[i * adj_count + adj + 1]

RECURSIVE Product(_, _)
Product(f, S) ==
    IF S = {} THEN 1
    ELSE LET x == CHOOSE y \in S : TRUE IN f[x] * Product(f, S \ {x})

\* The row sum as the fraction RowNumerator / RowDenominator.
RowDenominator(i) == Product([adj \in 0..(adj_count - 1) |-> WeightCell(i, adj)[2]],
                             0..(adj_count - 1))
RowNumerator(i) ==
    SumFn([adj \in 0..(adj_count - 1) |->
              WeightCell(i, adj)[1] * (RowDenominator(i) \div WeightCell(i, adj)[2])],
          0..(adj_count - 1))

C8_WeightRows ==
    evaluate.built =>
        /\ Len(evaluate.weights) = rule_count * adj_count
        /\ \A i \in 0..(rule_count - 1) :
              LET E == intermediate.adjusted.rules[i + 1].entities
              IN /\ \A adj \in E : WeightCell(i, adj) = <<1, Cardinality(E)>>
                 /\ \A adj \in (0..(adj_count - 1)) \ E : WeightCell(i, adj) = <<0, 1>>
                 /\ RowNumerator(i) = IF E = {} THEN 0 ELSE RowDenominator(i)

\* One program with a rule on several adjustables that leaves another
\* adjustable out, and a rule on none.
C8_Witness ==
    /\ evaluate.built
    /\ \E i \in 1..rule_count :
          LET E == intermediate.adjusted.rules[i].entities
          IN Cardinality(E) >= 2 /\ Cardinality(E) < adj_count
    /\ \E i \in 1..rule_count : intermediate.adjusted.rules[i].entities = {}

\* ------------------------------------------------------------------------
\* C9. As claimed: every lowered entity, of every kind, has Loc = its id, in
\* the evaluate phase and in the figure phase.
\* ------------------------------------------------------------------------
C9_EntityLocIsId ==
    pc \in {"rules", "evaluated", "figure", "done"} =>
        \A e \in CompiledEntities : entities[e + 1] = e

\* C9, amended. A FreePoint or FreeReal entity i has Loc i in both programs.
\* A PointOnLine or PointOnCircle entity i has the target of its OnLine /
\* OnCircle instruction (clip = i), a main-cursor slot at or past adj_count,
\* never i.
C9_FreeEntityLocIsId ==
    pc \in {"rules", "evaluated", "figure", "done"} =>
        \A e \in CompiledEntities :
            IF AdjustedEntity(e).kind \in {"FreePoint", "FreeReal"}
            THEN entities[e + 1] = e
            ELSE /\ entities[e + 1] # e
                 /\ entities[e + 1] >= adj_count
                 /\ \E i \in DOMAIN CurrentInstructions :
                       /\ CurrentInstructions[i].op =
                             (IF AdjustedEntity(e).kind = "PointOnLine"
                              THEN "OnLine" ELSE "OnCircle")
                       /\ CurrentInstructions[i].clip = e
                       /\ CurrentInstructions[i].target = entities[e + 1]

\* The figure phase has lowered a free entity, and the evaluate program holds
\* the OnLine instruction of a point on a line.
C9_Witness ==
    /\ pc = "done"
    /\ CompiledEntities # {}
    /\ \E i \in DOMAIN evaluate.instructions : evaluate.instructions[i].op = "OnLine"

\* ------------------------------------------------------------------------
\* C10. After prepare_constants the pool is adj_count placeholders followed
\* by exactly one slot per distinct Const value of the expressions, and
\* locate_const(v) is the Loc of the slot holding v.
\* ------------------------------------------------------------------------
ConstValues(exprs) == {exprs[i].n : i \in {j \in DOMAIN exprs : exprs[j].kind = "Const"}}

PoolFor(exprs) ==
    /\ Len(constants) = adj_count + Cardinality(ConstValues(exprs))
    /\ \A i \in 1..adj_count : constants[i] = ComplexZero
    /\ \A v \in ConstValues(exprs) :
          LET r == locate_const(Self, v)
          IN /\ ~r.c.panic
             /\ r.loc >= adj_count
             /\ constants[r.loc + 1] = to_complex(v)

C10_OneSlotPerValue ==
    /\ pc = "rules" => PoolFor(intermediate.adjusted.variables)
    /\ pc = "figure" => PoolFor(intermediate.figure.variables)

\* ---------------------------------------------------------------------------
\* Expand (script/math.rs): interning of the unrolled DAG into the record.
\*
\* An unrolled node is [ty, kind, ch]; its identity (the address of its data)
\* is its position in the sequence `unrolled`, and ch lists the positions of
\* its operands.  A record entry is [expr, uses], where expr is
\* [kind, ops, id]: ops are the ids of the Var operands the entry holds and id
\* is the payload of Entity{id} / Var{id} (0 where the kind has none).
\* ---------------------------------------------------------------------------

Node(ty, kind, ch) == [ty |-> ty, kind |-> kind, ch |-> ch]

MathExpr(kind, ops, id) == [kind |-> kind, ops |-> ops, id |-> id]

Entry(expr) == [expr |-> expr, uses |-> 1]

\* The Expand the caller holds, read out of the state.
ExpandSelf ==
    [record |-> record, expr_map |-> expr_map, points |-> points,
     returned |-> returned, abort |-> FALSE]

\* `unreachable!()`, or a recursion that never returns: the process ends.
ExpandAbort(x) == [x EXCEPT !.abort = TRUE]

\* Expand::add_point: hands out the next entity index.
add_point(x) == [x |-> [x EXCEPT !.points = @ + 1], id |-> x.points]

\* Bookkeeping: remember that a load call on node n returned Var{id}.
Returned(x, n, id) ==
    [x EXCEPT !.returned = [m \in DOMAIN @ |-> IF m = n THEN @[m] \cup {id} ELSE @[m]]]

\* A rewrite that peels the inner line and keeps the outer kind as it is.
RewrittenKind_kept(outer, inner) == outer

\* The line kind kept for a PerpendicularThrough / ParallelThrough over an
\* inner line of kind `inner`: an inner Perpendicular flips the outer kind,
\* an inner Parallel keeps it, anything else keeps it.
RewrittenKind(outer, inner) ==
    IF inner = "PerpendicularThrough"
    THEN (IF outer = "PerpendicularThrough" THEN "ParallelThrough" ELSE "PerpendicularThrough")
    ELSE outer

\* The line operand that is loaded: the inner line's own line operand when the
\* inner line is a Perpendicular / Parallel (one level is peeled), else the
\* inner line itself.
RewrittenLine(g, k) ==
    IF g[k].kind \in {"PerpendicularThrough", "ParallelThrough"} THEN g[k].ch[1] ELSE k

\* Expand_load with the insertion into expr_map left out.
RECURSIVE Expand_load_forgetful(_, _, _)
RECURSIVE Expand_load(_, _, _)
RECURSIVE load_all(_, _, _)
RECURSIVE FromUnrolled_load(_, _, _)
RECURSIVE load_CircleCenter(_, _, _)

Expand_load_forgetful(g, x, n) ==
    IF x.abort THEN [x |-> x, id |-> 0]
    ELSE LET r == FromUnrolled_load(g, x, n)
         IN  IF r.x.abort THEN [x |-> r.x, id |-> 0]
             ELSE LET pushed == [r.x EXCEPT !.record = Append(@, Entry(r.expr))]
                      id == Len(pushed.record) - 1
                  IN  [x |-> Returned(pushed, n, id), id |-> id]

\* Expand::load: returns the updated Expand and the id of the Var it yields.
Expand_load(g, x, n) ==
    IF x.abort THEN [x |-> x, id |-> 0]
    ELSE IF n \in DOMAIN x.expr_map
    THEN LET id == x.expr_map[n]
             used == [x EXCEPT !.record[id + 1].uses = @ + 1]
         IN  [x |-> Returned(used, n, id), id |-> id]
    ELSE LET r == FromUnrolled_load(g, x, n)
         IN  IF r.x.abort THEN [x |-> r.x, id |-> 0]
             ELSE LET pushed == [r.x EXCEPT !.record = Append(@, Entry(r.expr))]
                      id == Len(pushed.record) - 1
                      mapped == [pushed EXCEPT !.expr_map = (n :> id) @@ @]
                  IN  [x |-> Returned(mapped, n, id), id |-> id]

\* A CircleCenter arm that builds a node of its own over the loaded center.
load_CircleCenter_node(g, x, n) ==
    IF g[g[n].ch[1]].kind = "Circle"
    THEN LET r == Expand_load(g, x, g[g[n].ch[1]].ch[1])
         IN  [x |-> r.x, expr |-> MathExpr("CircleCenter", <<r.id>>, 0)]
    ELSE [x |-> ExpandAbort(x), expr |-> MathExpr("Var", <<>>, 0)]

\* UnrolledPoint::CircleCenter(circle): `return math.load(center)`, the Var
\* that the load of the center yields; any circle but Circle(center, _) is
\* unreachable!().
load_CircleCenter(g, x, n) ==
    IF g[g[n].ch[1]].kind = "Circle"
    THEN LET r == Expand_load(g, x, g[g[n].ch[1]].ch[1])
         IN  [x |-> r.x, expr |-> MathExpr("Var", <<>>, r.id)]
    ELSE [x |-> ExpandAbort(x), expr |-> MathExpr("Var", <<>>, 0)]

\* math.load on each node of ns in order; ids are the Var ids obtained.
load_all(g, x, ns) ==
    IF ns = <<>> THEN [x |-> x, ids |-> <<>>]
    ELSE LET h == Expand_load(g, x, Head(ns))
             t == load_all(g, h.x, Tail(ns))
         IN  [x |-> t.x, ids |-> <<h.id>> \o t.ids]

\* FromUnrolled::load for points and lines: the expression stored for node n.
FromUnrolled_load(g, x, n) ==
    LET e == g[n]
        none == [x |-> ExpandAbort(x), expr |-> MathExpr("Var", <<>>, 0)]
    IN  CASE e.kind \in {"LineLineIntersection", "Average", "LineFromPoints"} ->
               LET r == load_all(g, x, e.ch)
               IN  [x |-> r.x,
                    expr |-> MathExpr(IF e.kind = "LineFromPoints" THEN "PointPoint" ELSE e.kind,
                                      r.ids, 0)]
          [] e.kind = "CircleCenter" -> load_CircleCenter(g, x, n)
          [] e.kind = "Free" ->
               LET r == add_point(x)
               IN  [x |-> r.x, expr |-> MathExpr("Entity", <<>>, r.id)]
             \* a: math.load(expr) loads the bisector itself, whose key is not
             \* yet in expr_map: the call re-enters this arm in the same state
             \* and the recursion never returns.
          [] e.kind = "AngleBisector" -> none
          [] e.kind \in {"PerpendicularThrough", "ParallelThrough"} ->
               LET r == load_all(g, x, <<e.ch[2], RewrittenLine(g, e.ch[1])>>)
               IN  [x |-> r.x,
                    expr |-> MathExpr(RewrittenKind(e.kind, g[e.ch[1]].kind), r.ids, 0)]
          [] OTHER -> none

\* A rule that the owner of the Expand has mathed.
MathRule(kind, ops, items) == [kind |-> kind, ops |-> ops, items |-> items]

\* Rule::load: PointEq is mathed into Eq over its two loaded sides, wrapped in
\* Invert when the rule is inverted; every other kind is todo!().
Rule_load(g, x, rule) ==
    IF rule.kind = "PointEq"
    THEN LET r == load_all(g, x, <<rule.a, rule.b>>)
             mathed == MathRule("Eq", r.ids, <<>>)
         IN [x |-> r.x,
             rule |-> IF rule.inverted THEN MathRule("Invert", <<>>, <<mathed>>) ELSE mathed]
    ELSE [x |-> ExpandAbort(x), rule |-> MathRule("Eq", <<>>, <<>>)]

\* Adjusted { template: Vec::new(), items: Vec::new(), rules: Vec::new() }
EmptyAdjusted == [template |-> <<>>, items |-> <<>>, rules |-> <<>>]

\* --- Unrolled DAGs -----------------------------------------------------------

\* The sequences over S of length up to n.
RECURSIVE SeqsUpTo(_, _)
SeqsUpTo(S, n) ==
    IF n = 0 THEN {<<>>}
    ELSE SeqsUpTo(S, n - 1) \cup {Append(l, x) : l \in SeqsUpTo(S, n - 1), x \in S}

\* Two free points and their average, for the rules to compare.
RuleDag ==
    << Node("Point", "Free", <<>>),
       Node("Point", "Free", <<>>),
       Node("Point", "Average", <<1, 2>>) >>

\* Unrolled rules over RuleDag: every kind, inverted or not.
UnrolledRules ==
    [kind : {"PointEq", "ScalarEq", "Gt", "Lt"}, a : {1}, b : {3}, inverted : BOOLEAN]

PerpPar == {"PerpendicularThrough", "ParallelThrough"}

\* Three free points, a circle with its center, a line, a bisector, an average.
UnrolledBase ==
    << Node("Point", "Free", <<>>),
       Node("Point", "Free", <<>>),
       Node("Point", "Free", <<>>),
       Node("Scalar", "Free", <<>>),
       Node("Circle", "Circle", <<1, 4>>),
       Node("Point", "CircleCenter", <<5>>),
       Node("Line", "LineFromPoints", <<1, 2>>),
       Node("Line", "AngleBisector", <<1, 2, 3>>),
       Node("Point", "Average", <<1, 6>>) >>

LineAB == CHOOSE n \in DOMAIN UnrolledBase : UnrolledBase[n].kind = "LineFromPoints"

\* A nest of Perpendicular / Parallel over line AB, innermost first.
NestOf(kinds) ==
    [i \in 1..Len(kinds) |->
        Node("Line", kinds[i],
             <<IF i = 1 THEN LineAB ELSE Len(UnrolledBase) + i - 1, 3>>)]

\* The base, a nest, and the intersection of the nest's top with line AB.
UnrolledDag(kinds) ==
    LET top == IF kinds = <<>> THEN LineAB ELSE Len(UnrolledBase) + Len(kinds)
    IN  UnrolledBase \o NestOf(kinds)
          \o <<Node("Point", "LineLineIntersection", <<top, LineAB>>)>>

UnrolledDags ==
    UNION {{UnrolledDag(kinds) : kinds \in [1..d -> PerpPar]} : d \in 0..MaxNest}

\* Nodes a caller can hand to load: points and lines.
Loadable(g) == {n \in DOMAIN g : g[n].ty \in {"Point", "Line"}}

\* --- Actions -----------------------------------------------------------------

\* No compiler at work.
CompilerIdle ==
    /\ intermediate = MkIntermediate(<<>>, <<>>, <<>>, <<>>)
    /\ constants = <<>>
    /\ constants_indices = <<>>
    /\ cursor = 0
    /\ rule_cursor = 0
    /\ instructions = <<>>
    /\ entities = <<>>
    /\ variables = <<>>
    /\ alt_mode = FALSE
    /\ biases = <<>>
    /\ adj_count = 0
    /\ rule_count = 0
    /\ evaluate = NoProgram
    /\ figure = NoProgram
    /\ idx = 0
    /\ pc = "idle"
    /\ cursor_at_push = <<>>

\* load_adjusted: a fresh Expand over an unrolled DAG.
InitExpand ==
    /\ \/ unrolled \in UnrolledDags /\ unrolled_rules = <<>>
       \/ unrolled = RuleDag /\ unrolled_rules \in SeqsUpTo(UnrolledRules, MaxLoads - 1)
    /\ loaded_rules = <<>>
    /\ adjusted_view = <<>>
    /\ record = <<>>
    /\ expr_map = <<>>
    /\ points = 0
    /\ returned = [n \in DOMAIN unrolled |-> {}]
    /\ loads = 0
    /\ epc = "ready"
    /\ CompilerIdle
    /\ ScriptIdle

\* One math.load(expr) call by the owner of the Expand, nested loads included.
Load ==
    /\ epc = "ready"
    /\ loads < MaxLoads
    /\ \E n \in Loadable(unrolled) :
          LET r == Expand_load(unrolled, ExpandSelf, n)
          IN  IF r.x.abort
              THEN /\ epc' = "abort"
                   /\ UNCHANGED <<record, expr_map, points, returned>>
              ELSE /\ record' = r.x.record
                   /\ expr_map' = r.x.expr_map
                   /\ points' = r.x.points
                   /\ returned' = r.x.returned
                   /\ epc' = "ready"
    /\ loads' = loads + 1
    /\ UNCHANGED <<unrolled, unrolled_rules, loaded_rules, adjusted_view>>
    /\ UNCHANGED <<compilerVars, scriptVars>>

\* load_adjusted, one turn of the loop: rules.push(Rule::load(&rule, &mut expansion)).
LoadRule ==
    /\ epc = "ready"
    /\ loads < MaxLoads
    /\ Len(loaded_rules) < Len(unrolled_rules)
    /\ LET r == Rule_load(unrolled, ExpandSelf, unrolled_rules[Len(loaded_rules) + 1])
       IN IF r.x.abort
          THEN /\ epc' = "abort"
               /\ UNCHANGED <<record, expr_map, points, returned, loaded_rules>>
          ELSE /\ record' = r.x.record
               /\ expr_map' = r.x.expr_map
               /\ points' = r.x.points
               /\ returned' = r.x.returned
               /\ loaded_rules' = Append(loaded_rules, r.rule)
               /\ epc' = "ready"
    /\ loads' = loads + 1
    /\ UNCHANGED <<unrolled, unrolled_rules, adjusted_view>>
    /\ UNCHANGED <<compilerVars, scriptVars>>

\* load_adjusted, after the loop: the Adjusted it returns.
ReturnAdjusted ==
    /\ epc = "ready"
    /\ Len(loaded_rules) = Len(unrolled_rules)
    /\ adjusted_view' = EmptyAdjusted
    /\ epc' = "returned"
    /\ UNCHANGED <<unrolled, record, expr_map, points, returned, loads,
                   unrolled_rules, loaded_rules>>
    /\ UNCHANGED <<compilerVars, scriptVars>>

\* load_script: the Intermediate it returns, with the Adjusted it builds.
ReturnIntermediate ==
    /\ epc = "returned"
    /\ adjusted_view' = EmptyAdjusted
    /\ epc' = "loaded"
    /\ UNCHANGED <<unrolled, record, expr_map, points, returned, loads,
                   unrolled_rules, loaded_rules>>
    /\ UNCHANGED <<compilerVars, scriptVars>>

NextExpand ==
    \/ Load
    \/ LoadRule
    \/ ReturnAdjusted
    \/ ReturnIntermediate

SpecExpand == InitExpand /\ [][NextExpand]_vars

\* --- Vocabulary ----------------------------------------------------------------

\* The entry stored under id.
EntryOf(id) == record[id + 1]

\* Nodes that have been loaded and returned.
LoadedNodes == {n \in DOMAIN returned : returned[n] # {}}

\* C4: after any sequence of load calls, all calls made on one identity
\* returned one and the same record index, namely the one expr_map holds for
\* it, and the record holds exactly one entry per identity: distinct identities
\* own distinct entries and no entry is left without an identity.
C4_SameIdentitySameIndex ==
    epc # "idle" =>
        /\ \A n \in LoadedNodes :
              /\ n \in DOMAIN expr_map
              /\ returned[n] = {expr_map[n]}
              /\ expr_map[n] + 1 \in DOMAIN record
        /\ \A n \in DOMAIN expr_map : n \in LoadedNodes
        /\ \A n, m \in DOMAIN expr_map : n # m => expr_map[n] # expr_map[m]
        /\ Len(record) = Cardinality(DOMAIN expr_map)

\* A shared node has been loaded three times, through different parents and
\* directly, next to other entries.
C4_Witness ==
    /\ epc = "ready"
    /\ loads >= 2
    /\ Len(record) >= 4
    /\ \E n \in DOMAIN expr_map : EntryOf(expr_map[n]).uses >= 3

\* The kind of the line operand (ops[2]) of the entry.
LineOperandKind(e) == EntryOf(e.expr.ops[2]).expr.kind

\* C7: the expanded record never holds a PerpendicularThrough whose line
\* operand is itself a PerpendicularThrough, nor a ParallelThrough whose line
\* operand is itself a ParallelThrough, however deep the unrolled nest is.
C7_NoDoubleRewrite ==
    epc # "idle" =>
        \A i \in DOMAIN record :
            record[i].expr.kind \in PerpPar =>
                LineOperandKind(record[i]) # record[i].expr.kind

\* ---------------------------------------------------------------------------
\* Rules in the evaluate phase.
\* ---------------------------------------------------------------------------

RuleOps == {"EqualComplex", "EqualReal", "Less", "Greater", "MaxReal", "InvertQuality"}

\* The i-th rule of the adjusted view (1-based) and the rule-block slot it
\* owns: every top-level rule takes exactly one slot of the rule cursor.
TopRule(i) == intermediate.adjusted.rules[i].kind
RuleSlot(i) == Len(constants) + i - 1

\* The rule block [adj_count + const_count, adj_count + const_count + rule_count).
RuleBlock == Len(constants)..(Len(constants) + rule_count - 1)

\* First main-cursor slot of the evaluate phase.
ProgramZero == Len(constants) + rule_count

\* The instructions that write the slot a rule returns.
RECURSIVE OwnOps(_)
OwnOps(rk) ==
    CASE rk.kind = "Bias" -> {}
      [] rk.kind = "Alternative" -> {"MaxReal"}
      [] rk.kind = "Invert" -> {"InvertQuality"} \cup OwnOps(rk.items[1])
      [] OTHER -> {ComparisonInstruction(rk.kind)}

RuleInstructions == {j \in DOMAIN instructions : instructions[j].op \in RuleOps}

\* C11: for every top-level Alternative compiled in the evaluate phase exactly
\* one instruction, a MaxReal, writes the rule's slot of the rule block; its
\* parameters, the quality targets of the children, are main-cursor slots; and
\* every rule instruction that writes into the rule block is the own
\* instruction of a top-level rule, so that all instructions of children
\* (also below Invert or a nested Alternative) and the biases of Bias children
\* write main-cursor slots.
C11_AlternativeLayout ==
    pc = "rules" =>
        /\ \A i \in 1..idx :
              TopRule(i).kind = "Alternative" =>
                  LET own == {j \in DOMAIN instructions : instructions[j].target = RuleSlot(i)}
                  IN /\ Cardinality(own) = 1
                     /\ \A j \in own :
                           /\ instructions[j].op = "MaxReal"
                           /\ Len(instructions[j].params) = Len(TopRule(i).items)
                           /\ \A l \in Range(instructions[j].params) :
                                 l >= ProgramZero /\ l < cursor
        /\ \A j \in RuleInstructions :
              instructions[j].target \in RuleBlock =>
                  \E i \in 1..idx :
                      /\ instructions[j].target = RuleSlot(i)
                      /\ instructions[j].op \in OwnOps(TopRule(i))
        /\ \A k \in DOMAIN biases :
              biases[k] \in RuleBlock =>
                  \E i \in 1..idx : biases[k] = RuleSlot(i) /\ TopRule(i).kind # "Alternative"
        /\ Cardinality(RuleInstructions)
              = SumFn([i \in 1..idx |-> RuleInstructionCount(TopRule(i))], 1..idx)

\* A top-level Alternative with a nested non-empty Alternative child has been
\* compiled as the second rule of the program.
C11_Witness ==
    /\ pc = "rules"
    /\ idx >= 2
    /\ TopRule(2).kind = "Alternative"
    /\ \E k \in DOMAIN TopRule(2).items :
          /\ TopRule(2).items[k].kind = "Alternative"
          /\ TopRule(2).items[k].items # <<>>

\* ---------------------------------------------------------------------------
\* Sum.
\* ---------------------------------------------------------------------------

\* Compiled Sum variables whose operands are all leaves: entities or constants.
IsLeaf(v) == AdjustedVar(v).kind \in {"Entity", "Const"}

LeafSums ==
    {v \in CompiledVars :
        /\ AdjustedVar(v).kind = "Sum"
        /\ \A o \in Range(AdjustedVar(v).a) \cup Range(AdjustedVar(v).b) : IsLeaf(o)}

\* The Locs of a list of compiled operands.
LocsOf(vs) == [k \in DOMAIN vs |-> variables[vs[k] + 1]]

\* C12: a Sum{plus, minus} over leaves emits exactly three instructions, next
\* to each other and all with the Loc t the Sum returns as target:
\* Sum(minus operands -> t), Negation(t -> t), Sum([t, plus operands] -> t).
C12_SumThreeInstructions ==
    pc = "rules" =>
        \A v \in LeafSums :
            LET t == variables[v + 1]
                own == {j \in DOMAIN instructions : instructions[j].target = t}
            IN /\ Cardinality(own) = 3
               /\ \E j \in own :
                     /\ own = {j, j + 1, j + 2}
                     /\ instructions[j] = Instr("Sum", LocsOf(AdjustedVar(v).b), t)
                     /\ instructions[j + 1] = Instr("Negation", <<t>>, t)
                     /\ instructions[j + 2]
                           = Instr("Sum", <<t>> \o LocsOf(AdjustedVar(v).a), t)

\* A Sum with two different plus operands and a minus operand, an entity and
\* a constant among them, has been compiled.
C12_Witness ==
    /\ pc = "rules"
    /\ \E v \in LeafSums :
          /\ Len(AdjustedVar(v).a) >= 2
          /\ Len(AdjustedVar(v).b) >= 1
          /\ AdjustedVar(v).a[1] # AdjustedVar(v).a[2]
          /\ AdjustedVar(v).a # AdjustedVar(v).b

\* ---------------------------------------------------------------------------
\* The figure program's variable and entity lists.
\* ---------------------------------------------------------------------------

\* The Locs the loop over figure.variables obtains from compile, in order.
RECURSIVE compile_figure_variables(_, _)
compile_figure_variables(c, exprs) ==
    IF exprs = <<>> THEN [c |-> c, locs |-> <<>>]
    ELSE LET r == compile_ExprKind(c, Head(exprs))
             rest == compile_figure_variables(r.c, Tail(exprs))
         IN [c |-> rest.c, locs |-> <<r.loc>> \o rest.locs]

\* The figure phase run again from its start: what each compile call returned.
FigureLocs ==
    LET c0 == [Self EXCEPT !.variables = <<>>, !.entities = <<>>]
        c1 == prepare_constants(c0, adj_count, intermediate.figure.variables)
    IN compile_figure_variables([c1 EXCEPT !.cursor = adj_count],
                                intermediate.figure.variables).locs

\* C13: the FigureProgram lists one (value_type, loc) pair per entry of
\* figure.variables, in order, loc being the Loc the lowering of that variable
\* returned, and one pair per entry of figure.entities.
C13_FigurePairs ==
    figure.built =>
        /\ Len(figure.variables) = Len(intermediate.figure.variables)
        /\ \A i \in DOMAIN figure.variables :
              figure.variables[i]
                 = <<get_value_type(intermediate.figure.variables[i]), FigureLocs[i]>>
        /\ Len(figure.entities) = Len(intermediate.figure.entities)

\* ---------------------------------------------------------------------------
\* The evaluate program during the figure phase.
\* ---------------------------------------------------------------------------

\* C14: once built, the evaluate program is never changed: no step of the
\* figure phase alters its constants, instructions, req_memory_size, biases or
\* weights, so nothing produced for the figure program appears in it.
C14_EvaluateFrame == [][evaluate.built => evaluate' = evaluate]_vars

\* Both programs returned, each with instructions and a pool of its own.
C14_Witness ==
    /\ pc = "done"
    /\ evaluate.instructions # <<>>
    /\ figure.instructions # <<>>
    /\ figure.constants # evaluate.constants
    /\ figure.instructions # evaluate.instructions

\* ---------------------------------------------------------------------------
\* Script compile (script/compile.rs): flags and distance literals.
\*
\* The unrolled script is [distance_literals, point_bounds, variables, rules]:
\* distance_literals is the identifier given to the flag, variables lists for
\* each variable whether its definition holds a distance literal, rules lists
\* the same for the two sides of each rule.
\* ---------------------------------------------------------------------------

Err(e) == [kind |-> "Err", error |-> e]

Ok(v) == [kind |-> "Ok", value |-> v]

\* read_flags: the flag identifier mapped to DistanceLiterals.
read_flags(sc) ==
    IF sc.distance_literals \in {"none", "adjust", "solve"}
    THEN Ok([distance_literals |-> sc.distance_literals, point_bounds |-> sc.point_bounds])
    ELSE Err([name |-> "FlagEnumInvalidValue", received_value |-> sc.distance_literals])

\* Places of the distance literals that are_literals_present may report: any
\* variable holding one (context.variables is a HashMap, its order of
\* iteration is not fixed); with none among the variables, the first rule
\* side holding one, lhs before rhs.
LiteralPlaces(sc) ==
    LET vs == {i \in DOMAIN sc.variables : sc.variables[i]}
        rs == {i \in DOMAIN sc.rules : sc.rules[i].lhs \/ sc.rules[i].rhs}
        first == CHOOSE i \in rs : \A j \in rs : i <= j
    IN IF vs # {} THEN {<<"variable", i>> : i \in vs}
       ELSE IF rs # {}
       THEN {<<"rule", first, IF sc.rules[first].lhs THEN "lhs" ELSE "rhs">>}
       ELSE {}

\* The match on flags.distance_literals taken without regard to literals.
distance_variable_eager(fl, at) ==
    CASE fl.distance_literals = "solve" ->
            Err([name |-> "FetureNotSupported", feature_name |-> "solve_distance"])
      [] at = <<>> -> Ok(FALSE)
      [] fl.distance_literals = "adjust" -> Ok(TRUE)
      [] fl.distance_literals = "none" ->
            Err([name |-> "RequiredFlagNotSet", flag_name |-> "distance_literals",
                 required_because |-> at])

\* The match on flags.distance_literals with a required flag left unchecked.
distance_variable_lenient(fl, at) ==
    IF at = <<>> THEN Ok(FALSE)
    ELSE CASE fl.distance_literals = "adjust" -> Ok(TRUE)
           [] fl.distance_literals = "solve" ->
                Err([name |-> "FetureNotSupported", feature_name |-> "solve_distance"])
           [] fl.distance_literals = "none" -> Ok(FALSE)

\* dst_var: with a literal at `at` (<<>> when there is none), the @distance
\* variable under adjust, an error under solve and none.
distance_variable(fl, at) ==
    IF at = <<>> THEN Ok(FALSE)
    ELSE CASE fl.distance_literals = "adjust" -> Ok(TRUE)
           [] fl.distance_literals = "solve" ->
                Err([name |-> "FetureNotSupported", feature_name |-> "solve_distance"])
           [] fl.distance_literals = "none" ->
                Err([name |-> "RequiredFlagNotSet", flag_name |-> "distance_literals",
                     required_because |-> at])

\* --- Scripts -------------------------------------------------------------------

Scripts ==
    [distance_literals : {"none", "adjust", "solve", "scale"},
     point_bounds : BOOLEAN,
     variables : SeqsUpTo(BOOLEAN, MaxScriptVars),
     rules : SeqsUpTo([lhs : BOOLEAN, rhs : BOOLEAN], MaxScriptRules)]

\* --- Actions -------------------------------------------------------------------

\* The script unrolled, compile about to read the flags.
InitScript ==
    /\ script \in Scripts
    /\ flags = <<>>
    /\ dst_var = FALSE
    /\ result = <<>>
    /\ spc = "unrolled"
    /\ CompilerIdle
    /\ ExpandIdle

\* let flags = read_flags(&context.flags)?
ReadFlags ==
    /\ spc = "unrolled"
    /\ LET r == read_flags(script)
       IN IF r.kind = "Err"
          THEN /\ result' = r
               /\ spc' = "returned"
               /\ UNCHANGED flags
          ELSE /\ flags' = r.value
               /\ spc' = "flags"
               /\ UNCHANGED result
    /\ UNCHANGED <<script, dst_var>>
    /\ UNCHANGED <<compilerVars, expandVars>>

\* are_literals_present and the choice of dst_var.
CheckDistanceLiterals ==
    /\ spc = "flags"
    /\ \E at \in (IF LiteralPlaces(script) = {} THEN {<<>>} ELSE LiteralPlaces(script)) :
          LET r == distance_variable(flags, at)
          IN IF r.kind = "Err"
             THEN /\ result' = r
                  /\ spc' = "returned"
                  /\ UNCHANGED dst_var
             ELSE /\ dst_var' = r.value
                  /\ spc' = "compiling"
                  /\ UNCHANGED result
    /\ UNCHANGED <<script, flags>>
    /\ UNCHANGED <<compilerVars, expandVars>>

\* AdjustableTemplate::is_point
is_point(t) == t = "Point"

\* Weighed { object, weight }
Weighed(object, weight) == [object |-> object, weight |-> weight]

\* The Expression trees add_bounds builds: FreePoint{index}, PointX / PointY
\* of a free point, a scalar Literal.
FreePointExpr(i) == [kind |-> "FreePoint", index |-> i]
CoordExpr(k, i) == [kind |-> k, point |-> FreePointExpr(i)]
LiteralExpr(v) == [kind |-> "Literal", value |-> v]

\* CriteriaKind::Greater / Less / Equal over two expressions, and Inverse.
Criterion(k, a, b) == [kind |-> k, a |-> a, b |-> b]
InverseOf(c) == [kind |-> "Inverse", of |-> c]

\* add_bounds, the inner loop: one Inverse(Equal(i, j)) for every later point
\* j (indices are 0-based, template[j + 1] is adjustable j).
RECURSIVE point_inequalities(_, _, _)
point_inequalities(template, i, j) ==
    IF j >= Len(template) THEN <<>>
    ELSE (IF is_point(template[j + 1])
          THEN <<Weighed(InverseOf(Criterion("Equal", FreePointExpr(i), FreePointExpr(j))), 1)>>
          ELSE <<>>)
         \o point_inequalities(template, i, j + 1)

\* add_bounds, under flags.point_bounds: the four range criteria of point i,
\* with the literals the source gives them.
point_range(i) ==
    << Weighed(Criterion("Greater", CoordExpr("PointX", i), LiteralExpr(0)), 1),
       Weighed(Criterion("Greater", CoordExpr("PointY", i), LiteralExpr(1)), 1),
       Weighed(Criterion("Less", CoordExpr("PointX", i), LiteralExpr(1)), 1),
       Weighed(Criterion("Less", CoordExpr("PointY", i), LiteralExpr(1)), 1) >>

\* add_bounds, the outer loop from adjustable i on.
RECURSIVE add_bounds_from(_, _, _, _)
add_bounds_from(template, criteria, fl, i) ==
    IF i >= Len(template) THEN criteria
    ELSE IF ~is_point(template[i + 1]) THEN add_bounds_from(template, criteria, fl, i + 1)
    ELSE add_bounds_from(template,
                         criteria \o point_inequalities(template, i, i + 1)
                                  \o (IF fl.point_bounds THEN point_range(i) ELSE <<>>),
                         fl, i + 1)

add_bounds(template, criteria, fl) == add_bounds_from(template, criteria, fl, 0)

\* The templates compile_expression can have pushed: Point for a free point,
\* Real for a free real.
Templates == SeqsUpTo({"Point", "Real"}, MaxTemplate)

\* The criteria before the bounds: one per rule, then the bias on @distance
\* with weight 10 when there is a distance variable.
compiled_criteria(sc, dst) ==
    [i \in DOMAIN sc.rules |-> Weighed([kind |-> "Rule", index |-> i], 1)]
    \o (IF dst THEN <<Weighed([kind |-> "Bias"], 10)>> ELSE <<>>)

\* The variables and rules compiled, the bias pushed, the bounds added: Ok is
\* returned with the criteria, the template and the flags read.
ReturnCompiled ==
    /\ spc = "compiling"
    /\ \E template \in Templates :
          result' = Ok([criteria |-> add_bounds(template,
                                               compiled_criteria(script, dst_var), flags),
                        template |-> template,
                        flags |-> flags,
                        distance_bias |-> dst_var])
    /\ spc' = "returned"
    /\ UNCHANGED <<script, flags, dst_var>>
    /\ UNCHANGED <<compilerVars, expandVars>>

NextScript ==
    \/ ReadFlags
    \/ CheckDistanceLiterals
    \/ ReturnCompiled

SpecScript == InitScript /\ [][NextScript]_vars

\* --- Vocabulary ----------------------------------------------------------------

CompileReturned == spc = "returned"

ReturnedError(name) == CompileReturned /\ result.kind = "Err" /\ result.error.name = name

\* A distance literal occurs in a variable definition or in a side of a rule.
LiteralPresent ==
    \/ \E i \in DOMAIN script.variables : script.variables[i]
    \/ \E i \in DOMAIN script.rules : script.rules[i].lhs \/ script.rules[i].rhs

\* C15, as claimed: with the flag solve, compile returns FeatureNotSupported
\* whether or not a distance literal occurs.
C15_SolveAlwaysRejected ==
    (CompileReturned /\ script.distance_literals = "solve") => ReturnedError("FetureNotSupported")

\* C15, amended: with the flag solve, compile returns FeatureNotSupported
\* exactly when a distance literal occurs in a variable or a rule; without
\* any literal the flag solve causes no error and compile returns Ok.
C15_SolveRejectedWithLiterals ==
    (CompileReturned /\ script.distance_literals = "solve") =>
        IF LiteralPresent
        THEN ReturnedError("FetureNotSupported")
        ELSE result.kind = "Ok" /\ result.value.flags.distance_literals = "solve"

\* compile has returned under solve for a script without literals that has a
\* variable and a rule.
C15_Witness ==
    /\ CompileReturned
    /\ script.distance_literals = "solve"
    /\ ~LiteralPresent
    /\ script.variables # <<>>
    /\ script.rules # <<>>

\* C16: with the flag none, compile returns RequiredFlagNotSet (an Err, hence
\* no criteria, figure or template) when a distance literal occurs in a
\* variable definition or in a side of a rule, the error naming the place of
\* a literal; without any literal the flag none causes no error.
C16_NoneRequiresNoLiterals ==
    (CompileReturned /\ script.distance_literals = "none") =>
        IF LiteralPresent
        THEN /\ ReturnedError("RequiredFlagNotSet")
             /\ result.error.required_because \in LiteralPlaces(script)
        ELSE result.kind = "Ok"

\* compile has returned RequiredFlagNotSet for a literal that occurs only in
\* the right side of the second rule.
C16_Witness ==
    /\ ReturnedError("RequiredFlagNotSet")
    /\ result.error.required_because = <<"rule", 2, "rhs">>

\* ---------------------------------------------------------------------------
\* Expansion as a whole.
\* ---------------------------------------------------------------------------

\* C17: expansion never aborts: every Expand::load call, on every point and
\* line kind, returns, and Rule::load returns for every rule kind.
C17_ExpansionNeverAborts == epc # "abort"

\* The rule handed out at position i, as the adjusted view is to hold it.
ExpectedRule(i) ==
    LET eq == MathRule("Eq", <<expr_map[unrolled_rules[i].a], expr_map[unrolled_rules[i].b]>>,
                       <<>>)
    IN IF unrolled_rules[i].inverted THEN MathRule("Invert", <<>>, <<eq>>) ELSE eq

\* C18: the adjusted view returned by load_adjusted, and the one inside the
\* Intermediate returned by load_script, holds one rule per unrolled rule, in
\* order, an inverted rule wrapped in Invert and the others bare.
C18_AdjustedRules ==
    epc \in {"returned", "loaded"} =>
        /\ Len(adjusted_view.rules) = Len(unrolled_rules)
        /\ \A i \in DOMAIN adjusted_view.rules : adjusted_view.rules[i] = ExpectedRule(i)

\* ---------------------------------------------------------------------------
\* Targets and the main cursor.
\* ---------------------------------------------------------------------------

\* The instructions pushed for expressions and for entities on a line or a
\* circle: their targets come from the main cursor.
ExprInstructions == DOMAIN instructions \ RuleInstructions

\* C19, as claimed: when an expression instruction is appended its target is
\* the slot the cursor hands out at that moment (the cursor stands one past
\* it), so that the targets of different expressions increase along the list.
C19_TargetsIncrease ==
    pc \in {"rules", "figure"} =>
        /\ \A j \in ExprInstructions : instructions[j].target + 1 = cursor_at_push[j]
        /\ \A i, j \in ExprInstructions :
              i < j => instructions[i].target <= instructions[j].target

\* C19, amended: the target of an expression instruction is taken from the
\* main cursor before the operands are lowered, one slot per expression.
\* When the instruction is appended its target is below the cursor, and every
\* slot handed out in between is the target of an instruction appended
\* earlier, an operand lowered on its behalf: operands that need instructions
\* come earlier in the list with larger targets, so targets do not increase
\* along the list.
C19_TargetTakenBeforeOperands ==
    pc \in {"rules", "figure"} =>
        /\ Len(cursor_at_push) = Len(instructions)
        /\ \A j \in ExprInstructions :
              /\ instructions[j].target < cursor_at_push[j]
              /\ \A l \in (instructions[j].target + 1)..(cursor_at_push[j] - 1) :
                    \E i \in 1..(j - 1) : instructions[i].target = l

\* An expression whose operand needed an instruction that itself had an
\* operand needing one: two slots lie between the target and the cursor.
C19_Witness ==
    /\ pc = "rules"
    /\ \E j \in ExprInstructions :
          /\ cursor_at_push[j] >= instructions[j].target + 3
          /\ \E i \in ExprInstructions :
                i < j /\ instructions[i].target > instructions[j].target

\* ---------------------------------------------------------------------------
\* The main cursor of the figure phase.
\* ---------------------------------------------------------------------------

\* C20: figure lowering starts with the main cursor at adj_count + const_count,
\* the end of the pool prepared for the figure expressions, so that no figure
\* instruction writes the slot of an adjustable or of a literal constant of
\* the figure program.
C20_FigureCursorAfterPool ==
    /\ (pc = "figure" /\ idx = 0) => cursor = Len(constants)
    /\ pc = "figure" =>
          \A j \in DOMAIN instructions : instructions[j].target >= Len(constants)
    /\ figure.built =>
          \A j \in DOMAIN figure.instructions :
              figure.instructions[j].target >= Len(figure.constants)

\* ---------------------------------------------------------------------------
\* Definition before use.
\* ---------------------------------------------------------------------------

\* The instruction lists there are: the one under construction and the ones
\* of the programs already built, each with the bias slots that go with it.
InstructionLists ==
    {[is |-> instructions, biases |-> biases]}
    \cup (IF evaluate.built
          THEN {[is |-> evaluate.instructions, biases |-> evaluate.biases]} ELSE {})
    \cup (IF figure.built THEN {[is |-> figure.instructions, biases |-> <<>>]} ELSE {})

\* The operand at position j reads l, and an instruction earlier in the list
\* has written l.
WrittenBefore(is, j, l) == \E i \in 1..(j - 1) : is[i].target = l

\* C21, as claimed: in every emitted instruction list, each operand Loc that
\* is the target of some instruction of the list is the target of an
\* instruction at an earlier position.
C21_DefinitionBeforeUse ==
    \A P \in InstructionLists : \A j \in DOMAIN P.is : \A l \in Reads(P.is[j]) :
        l \in Targets(P.is) => WrittenBefore(P.is, j, l)

\* C21, amended: each operand Loc that is the target of some instruction is
\* written at an earlier position, the operands returned from the memo cache
\* and the in-place sequences of Sum and Product included; the one exception
\* is the InvertQuality of an inverted Bias rule, which reads and writes the
\* bias slot that no instruction writes before it.
C21_DefinitionBeforeUseButBias ==
    \A P \in InstructionLists : \A j \in DOMAIN P.is : \A l \in Reads(P.is[j]) :
        (l \in Targets(P.is) /\ ~(P.is[j].op = "InvertQuality" /\ l \in Range(P.biases)))
            => WrittenBefore(P.is, j, l)

\* An evaluate program with an inverted comparison and an operand that two
\* later instructions read from the memo cache.
C21_Witness ==
    /\ evaluate.built
    /\ \E j \in DOMAIN evaluate.instructions :
          /\ evaluate.instructions[j].op = "InvertQuality"
          /\ WrittenBefore(evaluate.instructions, j, evaluate.instructions[j].target)
    /\ \E i, j, k \in DOMAIN evaluate.instructions :
          /\ i < j /\ j < k
          /\ evaluate.instructions[i].target \in Range(evaluate.instructions[j].params)
          /\ evaluate.instructions[i].target \in Range(evaluate.instructions[k].params)
          /\ evaluate.instructions[j].op # "InvertQuality"

\* ---------------------------------------------------------------------------
\* The memo cache of variables.
\* ---------------------------------------------------------------------------

\* The variables a rule tree names as operands of its comparisons.
RECURSIVE RuleVars(_)
RuleVars(rk) == Range(rk.ops) \cup UNION {RuleVars(r) : r \in Range(rk.items)}

\* The compiled rules (1-based) that name v.
RulesNaming(v) == {i \in 1..idx : v \in RuleVars(TopRule(i))}

\* C22: while the evaluate program is lowered, compiling a VarIndex that has
\* already been compiled returns the Loc its first compilation stored and
\* leaves the whole compiler state as it was: no instruction appended, neither
\* cursor advanced. Hence the instruction list holds the instructions of each
\* compiled variable exactly once, however many rules share it, and the main
\* cursor has handed out one slot per compiled variable that needs one.
C22_MemoizedVarIndex ==
    pc = "rules" =>
        /\ \A v \in CompiledVars : compile_VarIndex(Self, v) = Ret(Self, variables[v + 1])
        /\ Len(instructions) = ExpectedInstructions
        /\ cursor = ExpectedCursor

\* Two compiled rules name the same variable, one that needs an instruction.
C22_Witness ==
    /\ pc = "rules"
    /\ \E v \in CompiledVars :
          /\ ExprInstructionCount(AdjustedVar(v)) >= 1
          /\ Cardinality(RulesNaming(v)) >= 2

\* ---------------------------------------------------------------------------
\* The center of a circle in the record.
\* ---------------------------------------------------------------------------

\* The loaded CircleCenter nodes and the center each one stands for.
LoadedCenters == {n \in LoadedNodes : unrolled[n].kind = "CircleCenter"}
CenterOf(n) == unrolled[unrolled[n].ch[1]].ch[1]

\* C23, as claimed: Expand::load of a CircleCenter(Circle{center, _}) node
\* returns the record index that the load of the center returns, and the
\* record gets no entry for the CircleCenter node itself.
C23_CenterSameIndex ==
    epc # "idle" =>
        \A n \in LoadedCenters :
            /\ CenterOf(n) \in DOMAIN expr_map
            /\ returned[n] = {expr_map[CenterOf(n)]}
            /\ \A i \in DOMAIN record : record[i].expr.kind # "Var"

\* C23, amended: FromUnrolled::load of a CircleCenter(Circle{center, _}) node
\* yields the Var that the load of the center returns, and Expand::load
\* records it like any other expression: the CircleCenter node gets an entry
\* of its own, Var{id of the center's entry}, pushed after the center's, and
\* the load returns the index of that entry, not the center's. No CircleCenter
\* expression is recorded.
C23_CenterAliasEntry ==
    epc # "idle" =>
        /\ \A n \in LoadedCenters :
              /\ CenterOf(n) \in DOMAIN expr_map
              /\ n \in DOMAIN expr_map
              /\ returned[n] = {expr_map[n]}
              /\ expr_map[n] > expr_map[CenterOf(n)]
              /\ EntryOf(expr_map[n]).expr = MathExpr("Var", <<>>, expr_map[CenterOf(n)])
        /\ \A i \in DOMAIN record : record[i].expr.kind # "CircleCenter"

\* The center of a circle has been loaded, directly or below an average,
\* next to its own center point.
C23_Witness ==
    /\ epc = "ready"
    /\ LoadedCenters # {}
    /\ \E n \in LoadedCenters : EntryOf(expr_map[CenterOf(n)]).uses >= 2

\* ---------------------------------------------------------------------------
\* Angle bisectors in the record.
\* ---------------------------------------------------------------------------

Bisectors == {n \in Loadable(unrolled) : unrolled[n].kind = "AngleBisector"}

\* C24: a load of an unrolled AngleBisector(a, b, c), made in any state of
\* the Expand, returns and leaves an AngleBisector entry whose operands are
\* the indices held for a, b and c, in that order, none of them the index of
\* the bisector itself.
C24_BisectorOperands ==
    epc = "ready" =>
        \A n \in Bisectors :
            LET r == Expand_load(unrolled, ExpandSelf, n)
                ch == unrolled[n].ch
            IN  /\ ~r.x.abort
                /\ \A i \in 1..3 : ch[i] \in DOMAIN r.x.expr_map
                /\ r.x.record[r.id + 1].expr =
                       MathExpr("AngleBisector",
                                <<r.x.expr_map[ch[1]], r.x.expr_map[ch[2]],
                                  r.x.expr_map[ch[3]]>>, 0)
                /\ \A i \in 1..3 : r.x.expr_map[ch[i]] # r.id

\* ---------------------------------------------------------------------------
\* Two-level line nests.
\* ---------------------------------------------------------------------------

\* The Perpendicular / Parallel nodes whose line operand is itself one.
TwoLevelNests ==
    {n \in DOMAIN unrolled :
        /\ unrolled[n].kind \in PerpPar
        /\ unrolled[unrolled[n].ch[1]].kind \in PerpPar}

InnerOf(n) == unrolled[n].ch[1]

\* What the claim says a nest is rewritten to: the same two kinds give a
\* ParallelThrough, two different kinds a PerpendicularThrough; the point is
\* the outer point, the line the inner line's line.
NestEntry(n, ids) ==
    MathExpr(IF unrolled[n].kind = unrolled[InnerOf(n)].kind
             THEN "ParallelThrough" ELSE "PerpendicularThrough",
             <<ids[unrolled[n].ch[2]], ids[unrolled[InnerOf(n)].ch[1]]>>, 0)

\* C25: a two-level nest is recorded rewritten, with point load(p) and line
\* load(l), and a load of a nest not yet in the record adds entries for the
\* nest, for p and for what the load of l needs, none for the inner line node.
C25_TwoLevelRewrite ==
    epc = "ready" =>
        /\ \A n \in TwoLevelNests \cap DOMAIN expr_map :
              /\ unrolled[n].ch[2] \in DOMAIN expr_map
              /\ unrolled[InnerOf(n)].ch[1] \in DOMAIN expr_map
              /\ EntryOf(expr_map[n]).expr = NestEntry(n, expr_map)
        /\ \A n \in TwoLevelNests \ DOMAIN expr_map :
              LET r == Expand_load(unrolled, ExpandSelf, n)
              IN  /\ ~r.x.abort
                  /\ r.x.record[r.id + 1].expr = NestEntry(n, r.x.expr_map)
                  /\ InnerOf(n) \in DOMAIN r.x.expr_map => InnerOf(n) \in DOMAIN expr_map
                  /\ Len(r.x.record) = Cardinality(DOMAIN r.x.expr_map)

\* Nests of both outcomes are in the record, one of them without an entry
\* for its inner line.
C25_Witness ==
    /\ epc = "ready"
    /\ \E n, m \in TwoLevelNests \cap DOMAIN expr_map :
          /\ EntryOf(expr_map[n]).expr.kind = "ParallelThrough"
          /\ EntryOf(expr_map[m]).expr.kind = "PerpendicularThrough"
          /\ InnerOf(n) \notin DOMAIN expr_map

\* ---------------------------------------------------------------------------
\* Entities on a line or on a circle.
\* ---------------------------------------------------------------------------

\* The entities bound to a line or a circle, and the instruction each needs.
OnEntities ==
    {e \in 0..(Len(intermediate.adjusted.entities) - 1) :
        AdjustedEntity(e).kind \in {"PointOnLine", "PointOnCircle"}}

OnOp(e) == IF AdjustedEntity(e).kind = "PointOnLine" THEN "OnLine" ELSE "OnCircle"

\* The positions of the instructions that clip adjustable e.
ClipsOf(is, e) == {j \in DOMAIN is : "clip" \in DOMAIN is[j] /\ is[j].clip = e}

\* Compiling entity e in compiler state c went as the claim says: it
\* returned, the list holds exactly one instruction clipping e, of the right
\* kind, over the Loc of the line or circle, with a main-cursor target no
\* other instruction writes, and compiling e once more returns that target
\* and changes nothing.
CompiledOnce(c, e) ==
    LET r == compile_EntityId(c, e)
        is == r.c.instructions
    IN  /\ ~r.c.panic
        /\ Cardinality(ClipsOf(is, e)) = 1
        /\ \A j \in ClipsOf(is, e) :
              /\ is[j].op = OnOp(e)
              /\ is[j].target = r.loc
              /\ is[j].params = <<r.c.variables[AdjustedEntity(e).v + 1]>>
              /\ is[j].target >= Len(r.c.constants)
              /\ is[j].target < r.c.cursor
              /\ \A k \in DOMAIN is : is[k].target = is[j].target => k = j
        /\ compile_EntityId(r.c, e) = Ret(r.c, r.loc)

\* C26: in the evaluate program and in the figure program, compiling an entity
\* on a line or on a circle emits exactly one OnLine / OnCircle with clip = i,
\* the Loc of its line / circle and a fresh main-cursor target, and every
\* later compilation returns that target and emits nothing.
C26_OneClipPerEntity ==
    pc \in {"rules", "figure"} =>
        \A e \in OnEntities :
            /\ CompiledOnce(Self, e)
            /\ e \in CompiledEntities => compile_EntityId(Self, e) = Ret(Self, entities[e + 1])

\* ---------------------------------------------------------------------------
\* The quality slots of the top-level rules.
\* ---------------------------------------------------------------------------

\* The literal slots of the evaluate pool: one per Const node.
ConstCount ==
    Cardinality({v \in DOMAIN intermediate.adjusted.variables :
                    intermediate.adjusted.variables[v].kind = "Const"})

\* C27: while the rules of the evaluate program are lowered, the pool is
\* adj_count + const_count long, the rule cursor stands at
\* adj_count + const_count + (number of top-level rules lowered) with the alt
\* mode off, and lowering the next top-level rule, whatever its kind and
\* whatever it nests, returns exactly that slot, advances the rule cursor by
\* one and leaves the alt mode off again.
C27_RuleSlots ==
    pc = "rules" =>
        /\ Len(constants) = adj_count + ConstCount
        /\ rule_cursor = adj_count + ConstCount + idx
        /\ ~alt_mode
        /\ idx < Len(intermediate.adjusted.rules) =>
              LET r == compile_RuleKind(Self, TopRule(idx + 1))
              IN  ~r.c.panic =>
                    /\ r.loc = adj_count + ConstCount + idx
                    /\ r.c.rule_cursor = rule_cursor + 1
                    /\ ~r.c.alt_mode

\* An Alternative with children has been lowered and a Bias after it took
\* the next slot of the rule block.
C27_Witness ==
    /\ pc = "rules"
    /\ idx >= 2
    /\ \E i \in 1..(idx - 1) :
          /\ TopRule(i).kind = "Alternative"
          /\ TopRule(i).items # <<>>
          /\ TopRule(i + 1).kind = "Bias"
          /\ RuleSlot(i + 1) \in Range(biases)

\* ---------------------------------------------------------------------------
\* The standard bounds.
\* ---------------------------------------------------------------------------

\* The point adjustables of the returned template (0-based).
PointAdjustables(template) == {i \in 0..(Len(template) - 1) : is_point(template[i + 1])}

\* The criteria add_bounds has appended to the compiled ones.
AddedBounds ==
    SubSeq(result.value.criteria,
           Len(compiled_criteria(script, result.value.distance_bias)) + 1,
           Len(result.value.criteria))

\* What the claim expects: one Inverse(Equal(i, j)) per pair i < j of points,
\* and under point_bounds x_i > 0, y_i > 0, x_i < 1, y_i < 1 per point i.
ExpectedBounds(template, fl) ==
    LET ps == PointAdjustables(template)
    IN  {Weighed(InverseOf(Criterion("Equal", FreePointExpr(i), FreePointExpr(j))), 1) :
            <<i, j>> \in {q \in ps \X ps : q[1] < q[2]}}
        \cup (IF fl.point_bounds
              THEN UNION {{Weighed(Criterion("Greater", CoordExpr("PointX", i), LiteralExpr(0)), 1),
                           Weighed(Criterion("Greater", CoordExpr("PointY", i), LiteralExpr(0)), 1),
                           Weighed(Criterion("Less", CoordExpr("PointX", i), LiteralExpr(1)), 1),
                           Weighed(Criterion("Less", CoordExpr("PointY", i), LiteralExpr(1)), 1)} :
                          i \in ps}
              ELSE {})

\* C28: the criteria appended by add_bounds are exactly, each once, the
\* pairwise inequalities of the point adjustables and, when point_bounds is
\* set, the four range criteria x_i > 0, y_i > 0, x_i < 1, y_i < 1 of every
\* point adjustable; when point_bounds is unset only the pairwise ones.
C28_PointBounds ==
    (CompileReturned /\ result.kind = "Ok") =>
        /\ Range(AddedBounds) = ExpectedBounds(result.value.template, result.value.flags)
        /\ Len(AddedBounds) = Cardinality(Range(AddedBounds))

\* ---------------------------------------------------------------------------
\* The entity Locs of the figure program.
\* ---------------------------------------------------------------------------

\* C29: every Loc paired with an entity in FigureProgram.entities is a slot
\* of the figure program, below its req_memory_size, and never the unset
\* sentinel usize::MAX, also for the entities no figure variable refers to.
C29_FigureEntityLocs ==
    figure.built =>
        \A i \in DOMAIN figure.entities :
            /\ figure.entities[i][2] # USIZE_MAX
            /\ figure.entities[i][2] < figure.req_memory_size

\* ---------------------------------------------------------------------------
\* Indices in range.
\* ---------------------------------------------------------------------------

\* C30: every index compile_programs uses stays in range. The entities of
\* every rule are below adj_count, so they fall inside the entity cache and
\* inside the rule's weight row; lowering the next rule of the evaluate phase
\* and lowering the next variable of the figure phase never index the memo
\* cache, the entity cache or a table outside their length.
C30_IndicesInRange ==
    /\ pc \in {"rules", "evaluated", "figure", "done"} =>
          \A i \in DOMAIN intermediate.adjusted.rules :
              \A adj \in intermediate.adjusted.rules[i].entities :
                  /\ adj < adj_count
                  /\ (i - 1) * adj_count + adj < i * adj_count
    /\ (pc = "rules" /\ idx < Len(intermediate.adjusted.rules)) =>
          ~compile_RuleKind(Self, TopRule(idx + 1)).c.panic
    /\ (pc = "figure" /\ idx < Len(intermediate.figure.variables)) =>
          ~compile_ExprKind(Self, intermediate.figure.variables[idx + 1]).c.panic
    /\ pc # "panic"

====
